---- MODULE Spec2Model ----
(***************************************************************************)
(* PySFS: CalcAPI.impact_point (src/calc.py), the ballistic impact-point   *)
(* predictor, as a state machine: one call is Entry, then one Step per     *)
(* iteration of the Velocity-Verlet loop, then a return.                   *)
(*                                                                         *)
(* Python floats are modelled as floating-point numbers [m, e] of value    *)
(* m * 10^e with at most Digits significant digits.  Every arithmetic      *)
(* operation is correctly rounded (round half to even), as IEEE 754        *)
(* prescribes for +, -, *, / and sqrt; the exponent is unbounded (no       *)
(* overflow, underflow, infinities or NaN).                                *)
(***************************************************************************)
EXTENDS Integers, Sequences, FiniteSets

\* Significant decimal digits kept by every floating-point operation.
Digits == 3

(***************************************************************************)
(* Floating-point arithmetic                                               *)
(***************************************************************************)
RECURSIVE Pow10(_)
Pow10(n) == IF n <= 0 THEN 1 ELSE 10 * Pow10(n - 1)

Abs(n) == IF n < 0 THEN 0 - n ELSE n

Sgn(n) == IF n < 0 THEN 0 - 1 ELSE IF n > 0 THEN 1 ELSE 0

\* number of decimal digits of a natural number (0 has none)
RECURSIVE NDigits(_)
NDigits(n) == IF n = 0 THEN 0 ELSE 1 + NDigits(n \div 10)

\* the canonical form: no trailing zero in the mantissa, zero is [0, 0]
RECURSIVE Canon(_, _)
Canon(m, e) ==
    IF m = 0 THEN [m |-> 0, e |-> 0]
    ELSE IF Abs(m) % 10 = 0 THEN Canon(Sgn(m) * (Abs(m) \div 10), e + 1)
    ELSE [m |-> m, e |-> e]

\* sgn * (a + sticky fraction) * 10^e rounded to Digits digits, half to even.
\* sticky is 1 when the exact magnitude lies strictly between a and a + 1;
\* callers then pass an a of more than Digits digits.
RoundMag(sgn, a, e, sticky) ==
    LET nd   == NDigits(a)
        drop == nd - Digits
    IN  IF drop <= 0 THEN Canon(sgn * a, e)
        ELSE LET p    == Pow10(drop)
                 q    == a \div p
                 r    == a % p
                 half == 5 * Pow10(drop - 1)
                 up   == \/ r > half
                         \/ r = half /\ (sticky = 1 \/ q % 2 = 1)
             IN  Canon(sgn * (IF up THEN q + 1 ELSE q), e + drop)

\* the float nearest to m * 10^e: a literal, or float(n) of an integer
F(m, e) == RoundMag(Sgn(m), Abs(m), e, 0)

Zero == [m |-> 0, e |-> 0]

FNeg(a) == [m |-> 0 - a.m, e |-> a.e]

\* position of the leading digit
Top(a) == a.e + NDigits(Abs(a.m))

FMul(a, b) == RoundMag(Sgn(a.m) * Sgn(b.m), Abs(a.m) * Abs(b.m), a.e + b.e, 0)

\* a + b for nonzero a, b with Top(a) >= Top(b): a is widened to Digits + 2
\* digits, b is aligned to it and its digits below are kept as a sticky bit
AddOrdered(a, b) ==
    LET pad  == (Digits + 2) - NDigits(Abs(a.m))
        e0   == a.e - pad
        big  == Abs(a.m) * Pow10(pad)
        sh   == b.e - e0
        q    == IF sh >= 0 THEN Abs(b.m) * Pow10(sh)
                ELSE IF 0 - sh > Digits THEN 0
                ELSE Abs(b.m) \div Pow10(0 - sh)
        st   == IF sh >= 0 THEN 0
                ELSE IF 0 - sh > Digits THEN 1
                ELSE IF Abs(b.m) % Pow10(0 - sh) # 0 THEN 1 ELSE 0
        same == Sgn(a.m) = Sgn(b.m)
    IN  IF same THEN RoundMag(Sgn(a.m), big + q, e0, st)
        ELSE IF big - q - st >= 0 THEN RoundMag(Sgn(a.m), big - q - st, e0, st)
        ELSE RoundMag(Sgn(b.m), q - big, e0, 0)

FAdd(a, b) ==
    IF a.m = 0 THEN b
    ELSE IF b.m = 0 THEN a
    ELSE IF Top(a) >= Top(b) THEN AddOrdered(a, b)
    ELSE AddOrdered(b, a)

FSub(a, b) == FAdd(a, FNeg(b))

\* a / b for b # 0
FDiv(a, b) ==
    IF a.m = 0 THEN Zero
    ELSE LET k == (NDigits(Abs(b.m)) + Digits + 1) - NDigits(Abs(a.m))
             n == Abs(a.m) * Pow10(k)
             q == n \div Abs(b.m)
             r == n % Abs(b.m)
         IN  RoundMag(Sgn(a.m) * Sgn(b.m), q, a.e - k - b.e,
                      IF r # 0 THEN 1 ELSE 0)

\* the integer square root: the largest r in lo .. hi with r * r <= n
RECURSIVE ISqrt(_, _, _)
ISqrt(n, lo, hi) ==
    IF lo >= hi THEN lo
    ELSE LET mid == (lo + hi + 1) \div 2
         IN  IF mid * mid <= n THEN ISqrt(n, mid, hi) ELSE ISqrt(n, lo, mid - 1)

\* math.sqrt(a) for a >= 0: the radicand is scaled to 2 * Digits - 1 or
\* 2 * Digits digits with an even exponent, so the root has Digits digits
FSqrt(a) ==
    IF a.m = 0 THEN Zero
    ELSE LET nd == NDigits(a.m)
             k0 == 2 * Digits - nd
             k  == IF (a.e - k0) % 2 = 0 THEN k0 ELSE k0 - 1
             n  == a.m * Pow10(k)
             r  == ISqrt(n, 0, Pow10(Digits))
             up == n > r * r + r
         IN  Canon(IF up THEN r + 1 ELSE r, (a.e - k) \div 2)

FLt(a, b) == FSub(a, b).m < 0

FLe(a, b) == FSub(a, b).m <= 0

FGt(a, b) == FSub(a, b).m > 0

FAbs(a) == [m |-> Abs(a.m), e |-> a.e]

(***************************************************************************)
(* impact_point: the values computed once per call                         *)
(***************************************************************************)
\* Optional[Dict[str, float]]: a coordinate pair, or None
None == [none |-> TRUE]

\* the outcome of a call that raises ZeroDivisionError
ZeroDivisionError == [raised |-> "ZeroDivisionError"]

Pt(px, py) == [x |-> px, y |-> py]

\* dt of the signature, and the value that replaces a dt <= 0
DefaultDt == F(2, 0 - 2)

\* only a negative dt is replaced
EffectiveDtNegativeOnly(d) == IF FLt(d, Zero) THEN DefaultDt ELSE d

EffectiveDt(d) == IF FLe(d, Zero) THEN DefaultDt ELSE d

\* one iteration too many
IterationsOneMore(max_steps) == IF max_steps < 0 THEN 0 ELSE max_steps + 1

\* range(int(max_steps)) has no element when max_steps <= 0
\* max_steps <= 0 replaced by a default, as dt is
IterationsDefaulted(max_steps) == IF max_steps <= 0 THEN 1 ELSE max_steps

Iterations(max_steps) == IF max_steps < 0 THEN 0 ELSE max_steps

R2Of(R) == FMul(R, R)

\* mu without the factor g
MuOfRadiusOnly(g, R) == R2Of(R)

\* mu = g R^2
MuOf(g, R) == FMul(g, R2Of(R))

\* (10.0 ** 12) * R2
MaxD2Of(R) == FMul(F(1, 12), R2Of(R))

\* x * x + y * y
Dist2(px, py) == FAdd(FMul(px, px), FMul(py, py))

\* a strict comparison in place of <=
InsideStrict(d2, R2) == FLt(d2, R2)

\* d2 <= R2: the position is within or on the surface
Inside(d2, R2) == FLe(d2, R2)

\* d2_new > max_d2
\* no position counts as diverged
DivergedNever(d2, max_d2) == FALSE

Diverged(d2, max_d2) == FGt(d2, max_d2)

\* the attraction -mu * p / d^2: one power of the distance too few
AccelInverseSquare(mu, p, d2) == FMul(FMul(FNeg(mu), p), FDiv(F(1, 0), d2))

\* the same magnitude pointing away from the origin
AccelRepulsive(mu, p, d2) ==
    FMul(FMul(mu, p), FDiv(FDiv(F(1, 0), FSqrt(d2)), d2))

\* one component of a = -mu r / |r|^3 at a position of squared distance
\* d2 > 0: -mu * p * inv_d3 with inv_d = 1.0 / d and inv_d3 = inv_d / d2
Accel(mu, p, d2) ==
    LET d      == FSqrt(d2)
        inv_d  == FDiv(F(1, 0), d)
        inv_d3 == FDiv(inv_d, d2)
    IN  FMul(FMul(FNeg(mu), p), inv_d3)

\* the roots s1, s2 of A s^2 + B s + C = 0 that lie in [0, 1], in the order
\* (s1, s2) of the code; the empty sequence when A = 0 or disc < 0
Candidates(A, B, C) ==
    IF ~ FGt(A, Zero) THEN << >>
    ELSE LET disc == FSub(FMul(B, B), FMul(FMul(F(4, 0), A), C))
         IN  IF FLt(disc, Zero) THEN << >>
             ELSE LET sqrt_disc == FSqrt(disc)
                      twoA      == FMul(F(2, 0), A)
                      s1        == FDiv(FSub(FNeg(B), sqrt_disc), twoA)
                      s2        == FDiv(FAdd(FNeg(B), sqrt_disc), twoA)
                      InRange(s) == FLe(Zero, s) /\ FLe(s, F(1, 0))
                  IN  SelectSeq(<<s1, s2>>, InRange)

\* the largest candidate in place of the smallest: the exit point
MaxOf(cands) ==
    IF Len(cands) = 1 THEN cands[1]
    ELSE IF FLe(cands[1], cands[2]) THEN cands[2] ELSE cands[1]

\* min(s_candidates) of a nonempty list
MinOf(cands) ==
    IF Len(cands) = 1 THEN cands[1]
    ELSE IF FLe(cands[1], cands[2]) THEN cands[1] ELSE cands[2]

SegA(px, py, xn, yn) ==
    LET dx == FSub(xn, px)
        dy == FSub(yn, py)
    IN  FAdd(FMul(dx, dx), FMul(dy, dy))

SegB(px, py, xn, yn) ==
    LET dx == FSub(xn, px)
        dy == FSub(yn, py)
    IN  FMul(F(2, 0), FAdd(FMul(px, dx), FMul(py, dy)))

SegC(px, py, R2) == FSub(Dist2(px, py), R2)

SegCandidates(px, py, xn, yn, R2) ==
    Candidates(SegA(px, py, xn, yn), SegB(px, py, xn, yn), SegC(px, py, R2))

\* the position the step started from in place of the crossing
RefineSegmentStart(px, py, xn, yn, R2) == Pt(px, py)

\* no fallback: None when the quadratic gives no root in [0, 1]
RefineNoFallback(px, py, xn, yn, R2) ==
    LET dx    == FSub(xn, px)
        dy    == FSub(yn, py)
        cands == SegCandidates(px, py, xn, yn, R2)
    IN  IF cands # << >>
        THEN LET s_hit == MinOf(cands)
             IN  Pt(FAdd(px, FMul(s_hit, dx)), FAdd(py, FMul(s_hit, dy)))
        ELSE None

\* the point returned for a step from (px, py) that ends at (xn, yn) within
\* the surface: the crossing of the segment with the circle, or (xn, yn)
Refine(px, py, xn, yn, R2) ==
    LET dx    == FSub(xn, px)
        dy    == FSub(yn, py)
        cands == SegCandidates(px, py, xn, yn, R2)
    IN  IF cands # << >>
        THEN LET s_hit == MinOf(cands)
             IN  Pt(FAdd(px, FMul(s_hit, dx)), FAdd(py, FMul(s_hit, dy)))
        ELSE Pt(xn, yn)

(***************************************************************************)
(* impact_point: call entry and one iteration of the main loop, as pure    *)
(* functions of the local variables                                        *)
(***************************************************************************)
\* ret is the line of the return statement taken, 0 when none is taken yet;
\* RaiseLine is the line where ZeroDivisionError would be raised
RaiseLine == 305

\* the degenerate-origin test placed before the immediate-hit test
EntryBranchOriginFirst(d2, R2) ==
    IF FSqrt(d2) = Zero THEN "degenerate"
    ELSE IF Inside(d2, R2) THEN "hit"
    ELSE "integrate"

\* a start beyond the divergence bound rejected at call entry
EntryBranchEscapeTest(d2, R2) ==
    IF Inside(d2, R2) THEN "hit"
    ELSE IF FSqrt(d2) = Zero \/ Diverged(d2, FMul(F(1, 12), R2))
    THEN "degenerate"
    ELSE "integrate"

\* the branch taken at call entry for a start of squared distance d2
EntryBranch(d2, R2) ==
    IF Inside(d2, R2) THEN "hit"
    ELSE IF FSqrt(d2) = Zero THEN "degenerate"
    ELSE "integrate"

\* the divergence test applied to the position the step started from
StepBranchDivergedOld(px, py, xn, yn, R2, max_d2) ==
    IF Inside(Dist2(xn, yn), R2) THEN "hit"
    ELSE IF Diverged(Dist2(px, py), max_d2) THEN "escaped"
    ELSE "continue"

\* the impact test applied to the position the step started from
StepBranchHitOld(px, py, xn, yn, R2, max_d2) ==
    IF Inside(Dist2(px, py), R2) THEN "hit"
    ELSE IF Diverged(Dist2(xn, yn), max_d2) THEN "escaped"
    ELSE "continue"

\* the branch taken after the position update of a step from (px, py) to
\* (xn, yn): the impact test comes first, then the divergence test
StepBranch(px, py, xn, yn, R2, max_d2) ==
    LET d2_new == Dist2(xn, yn)
    IN  IF Inside(d2_new, R2) THEN "hit"
        ELSE IF Diverged(d2_new, max_d2) THEN "escaped"
        ELSE "continue"

\* the half-step velocity and the position update
\* a whole step of the acceleration instead of half a step
HalfVelWholeStep(v, a, dt) == FAdd(v, FMul(dt, a))

HalfVel(v, a, dt) == FAdd(v, FMul(FMul(F(5, 0 - 1), dt), a))

\* the position update with the sign of the displacement reversed
NewPosBackward(p, vh, dt) == FSub(p, FMul(dt, vh))

NewPos(p, vh, dt) == FAdd(p, FMul(dt, vh))

\* the locals after call entry
EntryFn(a) ==
    LET R2 == R2Of(a.planet_radius)
        mu == MuOf(a.gravity, a.planet_radius)
        d2 == Dist2(a.rocket_x, a.rocket_y)
        br == EntryBranch(d2, R2)
        l0 == [x |-> a.rocket_x, y |-> a.rocket_y, vx |-> a.vel_x, vy |-> a.vel_y,
               ax |-> Zero, ay |-> Zero, x_new |-> Zero, y_new |-> Zero]
    IN  IF br = "hit"
        THEN [ret |-> 253, result |-> Pt(a.rocket_x, a.rocket_y), l |-> l0]
        ELSE IF br = "degenerate"
        THEN [ret |-> 258, result |-> None, l |-> l0]
        ELSE [ret |-> 0, result |-> None,
              l |-> [l0 EXCEPT !.ax = Accel(mu, a.rocket_x, d2),
                               !.ay = Accel(mu, a.rocket_y, d2)]]

\* one iteration of the Velocity-Verlet loop from the locals l
StepFn(l, dt, R2, mu, max_d2) ==
    LET vxh    == HalfVel(l.vx, l.ax, dt)
        vyh    == HalfVel(l.vy, l.ay, dt)
        x_new  == NewPos(l.x, vxh, dt)
        y_new  == NewPos(l.y, vyh, dt)
        d2_new == Dist2(x_new, y_new)
        br     == StepBranch(l.x, l.y, x_new, y_new, R2, max_d2)
        ln     == [l EXCEPT !.x_new = x_new, !.y_new = y_new]
    IN  IF br = "hit"
        THEN [ret |-> IF SegCandidates(l.x, l.y, x_new, y_new, R2) # << >>
                      THEN 296 ELSE 298,
              result |-> Refine(l.x, l.y, x_new, y_new, R2), l |-> ln]
        ELSE IF br = "escaped"
        THEN [ret |-> 301, result |-> None, l |-> ln]
        ELSE IF FSqrt(d2_new) = Zero
        THEN [ret |-> RaiseLine, result |-> ZeroDivisionError, l |-> ln]
        ELSE LET ax_new == Accel(mu, x_new, d2_new)
                 ay_new == Accel(mu, y_new, d2_new)
             IN  [ret |-> 0, result |-> None,
                  l |-> [x |-> x_new, y |-> y_new,
                         vx |-> FAdd(vxh, FMul(FMul(F(5, 0 - 1), dt), ax_new)),
                         vy |-> FAdd(vyh, FMul(FMul(F(5, 0 - 1), dt), ay_new)),
                         ax |-> ax_new, ay |-> ay_new,
                         x_new |-> x_new, y_new |-> y_new]]

\* for _ in range(int(max_steps)): ... return None
RECURSIVE RunLoop(_, _, _, _, _, _)
RunLoop(l, n, dt, R2, mu, max_d2) ==
    IF n <= 0 THEN None
    ELSE LET s == StepFn(l, dt, R2, mu, max_d2)
         IN  IF s.ret # 0 THEN s.result
             ELSE RunLoop(s.l, n - 1, dt, R2, mu, max_d2)

\* the value returned by impact_point(a)
ImpactPoint(a) ==
    LET en == EntryFn(a)
    IN  IF en.ret # 0 THEN en.result
        ELSE RunLoop(en.l, Iterations(a.max_steps), EffectiveDt(a.dt),
                     R2Of(a.planet_radius), MuOf(a.gravity, a.planet_radius),
                     MaxD2Of(a.planet_radius))

(***************************************************************************)
(* The calls that are explored                                             *)
(***************************************************************************)
\* the largest max_steps of the calls of the grid
MaxSteps == 4

\* max_steps of the calls that run the example of the documentation
\* (start (100, 0), velocity (-10, 0), R = 10, g = 0) to its end
ExampleSteps == 460

Xs == {F(0, 0), F(6, 0), F(10, 0), F(20, 0), F(30, 0)}

Ys == {F(0, 0), F(5, 0), F(8, 0)}

VXs == {F(0 - 10, 0), F(0 - 3, 0), F(0, 0), F(10, 0)}

VYs == {F(0, 0), F(0 - 4, 0)}

Rs == {F(5, 0), F(10, 0)}

Gs == {F(0, 0), F(10, 0)}

DTs == {F(0 - 1, 0), F(0, 0), DefaultDt, F(3, 0 - 1), F(3, 0), F(1, 8)}

MSs == {0 - 1, 0, 1, MaxSteps}

Grid ==
    [rocket_x : Xs, rocket_y : Ys, vel_x : VXs, vel_y : VYs,
     planet_radius : Rs, gravity : Gs, dt : DTs, max_steps : MSs]

Example(d) ==
    [rocket_x |-> F(100, 0), rocket_y |-> F(0, 0), vel_x |-> F(0 - 10, 0),
     vel_y |-> F(0, 0), planet_radius |-> F(10, 0), gravity |-> F(0, 0),
     dt |-> d, max_steps |-> ExampleSteps]

\* starts beyond the divergence bound 10^6 R: at rest, or fast enough to
\* reach the origin in one step of dt = 1
FarCalls ==
    [rocket_x : {F(2, 7)}, rocket_y : {F(0, 0)},
     vel_x : {F(0 - 2, 7), F(0, 0)}, vel_y : {F(0, 0)},
     planet_radius : {F(10, 0)}, gravity : Gs,
     dt : {F(1, 0), DefaultDt}, max_steps : {0, 1, MaxSteps}]

Calls ==
    Grid \cup {Example(d) : d \in {DefaultDt, F(0, 0), F(0 - 1, 0)}}
         \cup FarCalls

(***************************************************************************)
(* One call of impact_point as a state machine                             *)
(***************************************************************************)
VARIABLES
    pc,        \* "entry": before line 235; "loop": at the head of the for
               \* loop (line 265); "done": returned or raised
    arg,       \* the arguments of the call
    x, y,      \* current position
    vx, vy,    \* current velocity
    ax, ay,    \* acceleration at the current position
    x_new, y_new,  \* the position computed by the last step
    dt,        \* the time step after line 242
    steps,     \* iterations of the loop started so far
    result,    \* the value returned, ZeroDivisionError if raised
    ret,       \* line of the return statement taken, 0 while running
    seen,      \* the calls that returned before this one: (arg, result)
    other,     \* the frame of a second call of impact_point in progress
    http,      \* the fields of the HttpClient behind self.info
    sent,      \* the HTTP requests sent by the latest client call
    server,    \* what the SFSControl server answers
    vcache,    \* ValuesAPI._version
    call       \* the latest client call and what it returned

vars == <<pc, arg, x, y, vx, vy, ax, ay, x_new, y_new, dt, steps, result, ret,
          seen, other, http, sent, server, vcache, call>>

\* what is not a local of the call in progress
outside == <<seen, other, http, sent, server, vcache, call>>

\* no second call
NoFrame == [pc |-> "none"]

\* HttpClient.__init__
HttpFresh ==
    [version_checked |-> FALSE, supported |-> FALSE, version_text |-> << >>]

\* no server is involved
NoServer == [version |-> [kind |-> "fail"]]

\* no client call was made
NoCall == [op |-> "none"]

\* one call on a new client, nothing else going on
OutsideIdle ==
    /\ seen = {}
    /\ other = NoFrame
    /\ http = HttpFresh
    /\ sent = << >>
    /\ server = NoServer
    /\ vcache = None
    /\ call = NoCall

R2 == R2Of(arg.planet_radius)

mu == MuOf(arg.gravity, arg.planet_radius)

max_d2 == MaxD2Of(arg.planet_radius)

Locals == [x |-> x, y |-> y, vx |-> vx, vy |-> vy, ax |-> ax, ay |-> ay,
           x_new |-> x_new, y_new |-> y_new]

Init ==
    /\ pc = "entry"
    /\ arg \in Calls
    /\ x = Zero /\ y = Zero /\ vx = Zero /\ vy = Zero
    /\ ax = Zero /\ ay = Zero /\ x_new = Zero /\ y_new = Zero
    /\ dt = arg.dt
    /\ steps = 0
    /\ result = None
    /\ ret = 0
    /\ OutsideIdle

\* a default that survives from one call to the next
DtAtEntryKept ==
    IF FGt(arg.dt, Zero) THEN arg.dt
    ELSE IF FGt(dt, Zero) THEN dt ELSE DefaultDt

\* lines 241-242: dt is a parameter, local to the call
DtAtEntry == EffectiveDt(arg.dt)

\* the locals, the result and the control state after an entry or a step s
Commit(s) ==
    /\ x' = s.l.x /\ y' = s.l.y /\ vx' = s.l.vx /\ vy' = s.l.vy
    /\ ax' = s.l.ax /\ ay' = s.l.ay
    /\ x_new' = s.l.x_new /\ y_new' = s.l.y_new
    /\ result' = s.result
    /\ ret' = s.ret
    /\ pc' = IF s.ret = 0 THEN "loop" ELSE "done"

\* lines 235-262: conversions, dt defaulting, immediate hit, first acceleration
Entry ==
    /\ pc = "entry"
    /\ dt' = DtAtEntry
    /\ Commit(EntryFn(arg))
    /\ UNCHANGED <<arg, steps>>
    /\ UNCHANGED outside

\* lines 265-316: one iteration of the loop
Step ==
    /\ pc = "loop"
    /\ steps < Iterations(arg.max_steps)
    /\ steps' = steps + 1
    /\ Commit(StepFn(Locals, dt, R2, mu, max_d2))
    /\ UNCHANGED <<arg, dt>>
    /\ UNCHANGED outside

\* line 318: the loop is exhausted
Exhaust ==
    /\ pc = "loop"
    /\ steps >= Iterations(arg.max_steps)
    /\ pc' = "done"
    /\ result' = None
    /\ ret' = 318
    /\ UNCHANGED <<arg, x, y, vx, vy, ax, ay, x_new, y_new, dt, steps>>
    /\ UNCHANGED outside

Next == Entry \/ Step \/ Exhaust

Spec == Init /\ [][Next]_vars

(***************************************************************************)
(* Circular orbits                                                         *)
(***************************************************************************)
\* one unit in the last place of a float in [1, 10)
Ulp == F(1, 1 - Digits)

\* steps of the default dt that cover one period 2 pi sqrt(r^3 / (g R^2)):
\* 1.78 s for r = 2 R and 0.64 s for r = 1.01 R, with R = 10 and g = 1000
OrbitSteps == 89

SkimSteps == 32

\* the speed of the circular orbit of radius r: sqrt(g R^2 / r)
OrbitSpeed(g, R, r) == FSqrt(FDiv(MuOf(g, R), r))

\* a start on the x axis at radius r, moving counter-clockwise
OrbitCall(g, R, r, n) ==
    [rocket_x |-> r, rocket_y |-> Zero, vel_x |-> Zero,
     vel_y |-> OrbitSpeed(g, R, r), planet_radius |-> R, gravity |-> g,
     dt |-> DefaultDt, max_steps |-> n]

\* the same orbit started on the y axis
OrbitCallY(g, R, r, n) ==
    [rocket_x |-> Zero, rocket_y |-> r, vel_x |-> FNeg(OrbitSpeed(g, R, r)),
     vel_y |-> Zero, planet_radius |-> R, gravity |-> g,
     dt |-> DefaultDt, max_steps |-> n]

\* orbits at twice the radius of the body
ClearOrbits ==
    {OrbitCall(F(1, 3), F(10, 0), F(20, 0), OrbitSteps),
     OrbitCallY(F(1, 3), F(10, 0), F(20, 0), OrbitSteps)}

\* an orbit one unit in the last place above the surface
SkimOrbits ==
    {OrbitCall(F(1, 3), F(10, 0), FMul(F(10, 0), FAdd(F(1, 0), Ulp)),
               SkimSteps)}

OrbitInit ==
    /\ pc = "entry"
    /\ arg \in ClearOrbits \cup SkimOrbits
    /\ x = Zero /\ y = Zero /\ vx = Zero /\ vy = Zero
    /\ ax = Zero /\ ay = Zero /\ x_new = Zero /\ y_new = Zero
    /\ dt = arg.dt
    /\ steps = 0
    /\ result = None
    /\ ret = 0
    /\ OutsideIdle

OrbitSpec == OrbitInit /\ [][Next]_vars

(***************************************************************************)
(* Two calls in progress at once, from independent call sites              *)
(***************************************************************************)
\* every call site works on the locals of another call
OtherLocalsShared == Locals

\* the locals of the second call: each call has its own frame
OtherLocals == other.l

PairCalls ==
    [rocket_x : {F(10, 0), F(20, 0)}, rocket_y : {F(1, 0)},
     vel_x : {F(0 - 10, 0)}, vel_y : {F(0 - 4, 0)},
     planet_radius : {F(10, 0)}, gravity : {F(10, 0)},
     dt : {F(0, 0), F(3, 0 - 1)}, max_steps : {1, 2}]

\* the states a client can be in: new, checked and supported, checked and not
HttpStates ==
    {HttpFresh,
     [version_checked |-> TRUE, supported |-> TRUE,
      version_text |-> <<[k |-> "int", n |-> 1], [k |-> "int", n |-> 3]>>],
     [version_checked |-> TRUE, supported |-> FALSE, version_text |-> << >>]}

ZeroLocals ==
    [x |-> Zero, y |-> Zero, vx |-> Zero, vy |-> Zero, ax |-> Zero,
     ay |-> Zero, x_new |-> Zero, y_new |-> Zero]

PairInit ==
    /\ pc = "entry"
    /\ arg \in PairCalls
    /\ x = Zero /\ y = Zero /\ vx = Zero /\ vy = Zero
    /\ ax = Zero /\ ay = Zero /\ x_new = Zero /\ y_new = Zero
    /\ dt = arg.dt
    /\ steps = 0
    /\ result = None
    /\ ret = 0
    /\ seen = {}
    /\ \E a \in PairCalls :
           other = [pc |-> "entry", arg |-> a, l |-> ZeroLocals, dt |-> a.dt,
                    steps |-> 0, result |-> None, ret |-> 0]
    /\ http \in HttpStates
    /\ sent = << >>
    /\ server = NoServer
    /\ vcache = None
    /\ call = NoCall

\* the frame of the second call after an entry or a step s
OtherCommit(s) ==
    [other EXCEPT !.l = s.l, !.result = s.result, !.ret = s.ret,
                  !.pc = IF s.ret = 0 THEN "loop" ELSE "done"]

\* lines 235-262, second call
OtherEntry ==
    /\ other.pc = "entry"
    /\ other' = [OtherCommit(EntryFn(other.arg))
                    EXCEPT !.dt = EffectiveDt(other.arg.dt)]
    /\ UNCHANGED <<pc, arg, x, y, vx, vy, ax, ay, x_new, y_new, dt, steps,
                   result, ret, seen, http, sent, server, vcache, call>>

\* the frame of the first call (who = 1) or of the second (who = 2)
FrameOf(who) ==
    IF who = 1
    THEN [pc |-> pc, arg |-> arg, l |-> Locals, dt |-> dt, steps |-> steps,
          result |-> result, ret |-> ret]
    ELSE [other EXCEPT !.l = OtherLocals]

\* the frame f after a step s
FrameCommit(f, s) ==
    [f EXCEPT !.l = s.l, !.result = s.result, !.ret = s.ret,
              !.pc = IF s.ret = 0 THEN "loop" ELSE "done"]

\* the frame f becomes the frame of call who; the other call keeps its own
StoreFrame(who, f) ==
    IF who = 1
    THEN /\ pc' = f.pc /\ arg' = f.arg /\ dt' = f.dt /\ steps' = f.steps
         /\ result' = f.result /\ ret' = f.ret
         /\ x' = f.l.x /\ y' = f.l.y /\ vx' = f.l.vx /\ vy' = f.l.vy
         /\ ax' = f.l.ax /\ ay' = f.l.ay
         /\ x_new' = f.l.x_new /\ y_new' = f.l.y_new
         /\ UNCHANGED other
    ELSE /\ other' = f
         /\ UNCHANGED <<pc, arg, x, y, vx, vy, ax, ay, x_new, y_new, dt, steps,
                        result, ret>>

\* lines 265-316: one iteration of the loop of call who
StepOf(who) ==
    /\ FrameOf(who).pc = "loop"
    /\ FrameOf(who).steps < Iterations(FrameOf(who).arg.max_steps)
    /\ StoreFrame(who,
                  [FrameCommit(FrameOf(who),
                               StepFn(FrameOf(who).l, FrameOf(who).dt,
                                      R2Of(FrameOf(who).arg.planet_radius),
                                      MuOf(FrameOf(who).arg.gravity,
                                           FrameOf(who).arg.planet_radius),
                                      MaxD2Of(FrameOf(who).arg.planet_radius)))
                      EXCEPT !.steps = FrameOf(who).steps + 1])
    /\ UNCHANGED <<seen, http, sent, server, vcache, call>>

\* either call runs one iteration
PairStep == \E who \in {1, 2} : StepOf(who)

\* line 318, second call
OtherExhaust ==
    /\ other.pc = "loop"
    /\ other.steps >= Iterations(other.arg.max_steps)
    /\ other' = [other EXCEPT !.pc = "done", !.result = None, !.ret = 318]
    /\ UNCHANGED <<pc, arg, x, y, vx, vy, ax, ay, x_new, y_new, dt, steps,
                   result, ret, seen, http, sent, server, vcache, call>>

PairNext ==
    Entry \/ PairStep \/ Exhaust \/ OtherEntry \/ OtherExhaust

PairSpec == PairInit /\ [][PairNext]_vars

(***************************************************************************)
(* Calls one after another on the same CalcAPI instance                    *)
(***************************************************************************)
\* a few calls that hit, escape or run out of steps, with every kind of dt
SeqCalls ==
    [rocket_x : {F(10, 0), F(20, 0)}, rocket_y : {F(1, 0)},
     vel_x : {F(0 - 10, 0)}, vel_y : {F(0 - 4, 0)},
     planet_radius : {F(10, 0)}, gravity : {F(10, 0)},
     dt : {F(0, 0), F(3, 0 - 1), F(3, 0)}, max_steps : {MaxSteps}]

SeqInit ==
    /\ pc = "entry"
    /\ arg \in SeqCalls
    /\ x = Zero /\ y = Zero /\ vx = Zero /\ vy = Zero
    /\ ax = Zero /\ ay = Zero /\ x_new = Zero /\ y_new = Zero
    /\ dt = arg.dt
    /\ steps = 0
    /\ result = None
    /\ ret = 0
    /\ OutsideIdle

\* the caller takes the result and calls impact_point again: the new frame
\* starts with whatever the memory holds, every local is assigned before use
CallAgain ==
    /\ pc = "done"
    /\ seen' = seen \cup {[arg |-> arg, result |-> result]}
    /\ \E a \in SeqCalls : arg' = a
    /\ pc' = "entry"
    /\ steps' = 0
    /\ result' = None
    /\ ret' = 0
    /\ UNCHANGED <<x, y, vx, vy, ax, ay, x_new, y_new, dt>>
    /\ UNCHANGED <<other, http, sent, server, vcache, call>>

SeqNext == Entry \/ Step \/ Exhaust \/ CallAgain

SeqSpec == SeqInit /\ [][SeqNext]_vars

(***************************************************************************)
(* The HTTP client: HttpClient, InfoAPI, ControlAPI, ValuesAPI, SFSClient  *)
(***************************************************************************)
\* the parts of a version string split at ".": all digits (its value n),
\* a digit followed by something else ("2beta"), no leading digit ("v1"), ""
Num(n) == [k |-> "int", n |-> n]

Junk == [k |-> "junk", n |-> 0]

Word == [k |-> "word", n |-> 0]

Empty == [k |-> "empty", n |-> 0]

\* a part of more than 4300 digits: str.isdigit() holds but int() raises
\* ValueError (the interpreter's default limit on the digits of an int)
Huge == [k |-> "huge", n |-> 0]

\* "1.2", "1.3", "1.1", "1", "2", "0.9", "1.2.5", "1.10", "1.3.0", "2.0.1",
\* "v1.2", "1.2beta", "", "abc", "1."
VersionTexts ==
    {<<Num(1), Num(2)>>, <<Num(1), Num(3)>>, <<Num(1), Num(1)>>, <<Num(1)>>,
     <<Num(2)>>, <<Num(0), Num(9)>>, <<Num(1), Num(2), Num(5)>>,
     <<Num(1), Num(10)>>, <<Num(1), Num(3), Num(0)>>,
     <<Num(2), Num(0), Num(1)>>, <<Word, Num(2)>>, <<Num(1), Junk>>,
     <<Empty>>, <<Word>>, <<Num(1), Empty>>}

\* what GET /version does: the request raises, or answers a dict with a
\* "version", a dict without one, or JSON that is not a dict
VersionReplies ==
    {[kind |-> "fail"], [kind |-> "noversion"], [kind |-> "notdict"]}
    \cup {[kind |-> "ok", text |-> t] : t \in VersionTexts}

Raised == [raised |-> "RequestException"]

UnsupportedMsg ==
    [result |-> [str |-> "PySFS only supports SFSControl v1.2 and above"]]

\* resp.json() of GET /version
VersionData(v) ==
    IF v.kind = "fail" THEN Raised
    ELSE IF v.kind = "ok" THEN [version |-> v.text]
    ELSE IF v.kind = "noversion" THEN [name |-> "SFSControl"]
    ELSE [list |-> << >>]

\* both numbers are required to reach those of 1.2
IsVersionSupportedBothParts(ver) ==
    LET kept  == SelectSeq(ver, LAMBDA q : q.k \in {"int", "junk", "huge"})
        major == IF Len(kept) >= 1 THEN kept[1].n ELSE 0
        minor == IF Len(kept) >= 2 THEN kept[2].n ELSE 0
    IN  IF \E i \in 1..Len(kept) : kept[i].k \in {"junk", "huge"} THEN FALSE
        ELSE major >= 1 /\ minor >= 2

\* HttpClient._is_version_supported: the parts that start with a digit are
\* converted, the others are skipped; a conversion error gives False
IsVersionSupported(ver) ==
    LET kept  == SelectSeq(ver, LAMBDA q : q.k \in {"int", "junk", "huge"})
        major == IF Len(kept) >= 1 THEN kept[1].n ELSE 0
        minor == IF Len(kept) >= 2 THEN kept[2].n ELSE 0
    IN  IF \E i \in 1..Len(kept) : kept[i].k \in {"junk", "huge"} THEN FALSE
        ELSE major > 1 \/ (major = 1 /\ minor >= 2)

\* lines 23 and 34: every path but "/version" is behind the version check
NeedsVersion(path) == path # "/version"

Request(verb, path, payload) ==
    [verb |-> verb, path |-> path, payload |-> payload]

NoPayload == [none |-> TRUE]

\* the probe repeated as long as the client is not supported
EnsureVersionRetry(h, v) ==
    IF h.version_checked /\ h.supported THEN [http |-> h, sent |-> << >>]
    ELSE [sent |-> <<Request("GET", "/version", NoPayload)>>,
          http |->
              IF v.kind \in {"fail", "notdict"}
              THEN [h EXCEPT !.version_checked = TRUE, !.supported = FALSE]
              ELSE LET ver == IF v.kind = "ok" THEN v.text ELSE <<Empty>>
                   IN  [version_checked |-> TRUE,
                        supported |-> IsVersionSupported(ver),
                        version_text |-> ver]]

\* HttpClient._ensure_version on the fields h, with v what /version does
EnsureVersion(h, v) ==
    IF h.version_checked THEN [http |-> h, sent |-> << >>]
    ELSE [sent |-> <<Request("GET", "/version", NoPayload)>>,
          http |->
              IF v.kind \in {"fail", "notdict"}
              THEN [h EXCEPT !.version_checked = TRUE, !.supported = FALSE]
              ELSE LET ver == IF v.kind = "ok" THEN v.text ELSE <<Empty>>
                   IN  [version_checked |-> TRUE,
                        supported |-> IsVersionSupported(ver),
                        version_text |-> ver]]

\* the version is checked but the request is sent whatever the outcome
FetchUngated(h, verb, path, payload, v, reply) ==
    LET e == IF NeedsVersion(path) THEN EnsureVersion(h, v)
             ELSE [http |-> h, sent |-> << >>]
    IN  [http |-> e.http,
         sent |-> Append(e.sent, Request(verb, path, payload)),
         result |-> reply]

\* HttpClient.get_json and post_json: the fields, the requests sent and the
\* value returned, reply being what the server does with the request
Fetch(h, verb, path, payload, v, reply) ==
    IF NeedsVersion(path)
    THEN LET e == EnsureVersion(h, v)
         IN  IF ~ e.http.supported
             THEN [http |-> e.http, sent |-> e.sent, result |-> UnsupportedMsg]
             ELSE [http |-> e.http,
                   sent |-> Append(e.sent, Request(verb, path, payload)),
                   result |-> reply]
    ELSE [http |-> h, sent |-> <<Request(verb, path, payload)>>,
          result |-> reply]

GetPaths == {"/version", "/rocket_sim", "/other"}

PostPaths == {"/version", "/control", "/rcall"}

\* what the server does with a request
Replies(path) ==
    IF path = "/version" THEN {VersionData(server.version)}
    ELSE {Raised, [data |-> path]}

NoArgs == [none |-> TRUE]

\* a new client, no call of impact_point in progress
HttpInit ==
    /\ pc = "idle"
    /\ arg = NoArgs
    /\ x = Zero /\ y = Zero /\ vx = Zero /\ vy = Zero
    /\ ax = Zero /\ ay = Zero /\ x_new = Zero /\ y_new = Zero
    /\ dt = Zero
    /\ steps = 0
    /\ result = None
    /\ ret = 0
    /\ seen = {}
    /\ other = NoFrame
    /\ http = HttpFresh
    /\ sent = << >>
    /\ server \in [version : VersionReplies]
    /\ vcache = None
    /\ call = NoCall

calc == <<pc, arg, x, y, vx, vy, ax, ay, x_new, y_new, dt, steps, result,
          ret, seen, other>>

\* http.get_json(path)
GetJson ==
    \E path \in GetPaths : \E reply \in Replies(path) :
        LET r == Fetch(http, "GET", path, NoPayload, server.version, reply)
        IN  /\ http' = r.http
            /\ sent' = r.sent
            /\ call' = [op |-> "get_json", path |-> path, result |-> r.result]
            /\ UNCHANGED <<calc, server, vcache>>

\* http.post_json(path, payload)
PostJson ==
    \E path \in PostPaths : \E reply \in Replies(path) :
        LET payload == [method |-> "Stage", args |-> << >>]
            r == Fetch(http, "POST", path, payload, server.version, reply)
        IN  /\ http' = r.http
            /\ sent' = r.sent
            /\ call' = [op |-> "post_json", path |-> path,
                        result |-> r.result]
            /\ UNCHANGED <<calc, server, vcache>>

\* names are sequences of characters
ToUpper(c) ==
    CASE c = "u" -> "U" [] c = "s" -> "S" [] c = "e" -> "E" [] c = "p" -> "P"
      [] c = "a" -> "A" [] c = "r" -> "R" [] c = "t" -> "T" [] OTHER -> c

ToLower(c) ==
    CASE c = "U" -> "u" [] c = "S" -> "s" [] c = "E" -> "e" [] c = "P" -> "p"
      [] c = "A" -> "a" [] c = "R" -> "r" [] c = "T" -> "t" [] OTHER -> c

\* n.lower(), n.upper()
Lower(n) == [i \in 1..Len(n) |-> ToLower(n[i])]

Upper(n) == [i \in 1..Len(n) |-> ToUpper(n[i])]

\* n[:1].upper() + n[1:]
UpperFirst(n) == IF n = << >> THEN n ELSE <<ToUpper(n[1])>> \o Tail(n)

\* p.capitalize()
Capitalize(q) ==
    IF q = << >> THEN q ELSE <<ToUpper(q[1])>> \o Lower(Tail(q))

\* n.split("_"), cur being the part read so far
RECURSIVE SplitFrom(_, _)
SplitFrom(n, cur) ==
    IF n = << >> THEN <<cur>>
    ELSE IF Head(n) = "_" THEN <<cur>> \o SplitFrom(Tail(n), << >>)
    ELSE SplitFrom(Tail(n), Append(cur, Head(n)))

\* [p for p in n.split("_") if p]
Parts(n) == SelectSeq(SplitFrom(n, << >>), LAMBDA q : q # << >>)

\* "".join(p.capitalize() for p in parts)
RECURSIVE JoinCapitalized(_)
JoinCapitalized(parts) ==
    IF parts = << >> THEN << >>
    ELSE Capitalize(Head(parts)) \o JoinCapitalized(Tail(parts))

HasUnderscore(n) == \E i \in 1..Len(n) : n[i] = "_"

\* lines 44-50: the first occurrence of every option, in order
RECURSIVE Dedupe(_, _)
Dedupe(opts, out) ==
    IF opts = << >> THEN out
    ELSE IF \E i \in 1..Len(out) : out[i] = Head(opts)
         THEN Dedupe(Tail(opts), out)
         ELSE Dedupe(Tail(opts), Append(out, Head(opts)))

\* candidates(n), lines 28-50, for a name with a part between underscores
CandidateNames(n) ==
    LET ln == Lower(n)
        o1 == <<n>> \o (IF n # << >> THEN <<UpperFirst(n)>> ELSE << >>)
        o2 == IF HasUnderscore(n)
              THEN <<JoinCapitalized(Parts(n)),
                     Lower(Head(Parts(n)))
                         \o JoinCapitalized(Tail(Parts(n)))>>
              ELSE << >>
        o3 == <<Lower(n), Upper(n)>>
        o4 == IF ln # n
              THEN <<UpperFirst(ln)>>
                   \o (IF HasUnderscore(ln)
                       THEN <<JoinCapitalized(Parts(ln))>> ELSE << >>)
              ELSE << >>
    IN  Dedupe(o1 \o o2 \o o3 \o o4, << >>)

\* "UsePart", "use_Part", "usepart"
ForwardNames ==
    {<<"U", "s", "e", "P", "a", "r", "t">>,
     <<"u", "s", "e", "_", "P", "a", "r", "t">>,
     <<"u", "s", "e", "p", "a", "r", "t">>}

\* attributes found on the SFSClient instance or class; "use_part" and the
\* other methods defined on ControlAPI
ClientAttrs == {<<"h", "t", "t", "p">>, <<"h", "o", "s", "t">>}

ControlAttrs == {<<"u", "s", "e", "_", "p", "a", "r", "t">>}

\* SFSClient.__getattr__ and ControlAPI.__getattr__: where a name resolves
Resolve(n) ==
    IF n \in ClientAttrs THEN "client"
    ELSE IF n \in ControlAttrs THEN "control method"
    ELSE "dynamic"

\* the method names a server knows
KnownSets ==
    {{}, {<<"U", "s", "e", "P", "a", "r", "t">>},
     {<<"u", "s", "e", "p", "a", "r", "t">>}}

Success == [result |-> [str |-> "Success"]]

UnknownMethod == [result |-> [str |-> "Error: Unknown method"]]

\* the answer "Error: Unknown method <m>" of the server
UnknownReply(m) ==
    [result |-> [str |-> "Error: Unknown method", about |-> m]]

\* what POST /control answers for method m
ControlReply(m, known) == IF m \in known THEN Success ELSE UnknownReply(m)

\* ControlAPI.control, lines 13-17: a dict with the only key "result" is
\* unwrapped
Unwrap(r) == IF DOMAIN r = {"result"} THEN r.result ELSE r

\* isinstance(res, str) and "Unknown method" in res
IsUnknown(res) ==
    "str" \in DOMAIN res /\ res.str = "Error: Unknown method"

\* the candidates are tried last to first
RECURSIVE CallerBackward(_, _, _, _, _, _)
CallerBackward(h, cands, args, v, known, log) ==
    IF cands = << >>
    THEN [http |-> h, sent |-> log, result |-> Unwrap(UnknownMethod)]
    ELSE LET m   == cands[Len(cands)]
             f   == Fetch(h, "POST", "/control",
                          [method |-> m, args |-> args], v,
                          ControlReply(m, known))
             res == Unwrap(f.result)
         IN  IF IsUnknown(res) /\ Len(cands) > 1
             THEN CallerBackward(f.http, SubSeq(cands, 1, Len(cands) - 1),
                                 args, v, known, log \o f.sent)
             ELSE [http |-> f.http, sent |-> log \o f.sent, result |-> res]

\* only the name as given is tried
CallerFirstOnly(h, cands, args, v, known, log) ==
    LET m == Head(cands)
        f == Fetch(h, "POST", "/control", [method |-> m, args |-> args], v,
                   ControlReply(m, known))
    IN  [http |-> f.http, sent |-> log \o f.sent, result |-> Unwrap(f.result)]

\* caller(*args), lines 54-62: the candidates in order, until one is not
\* answered 'Unknown method'; after the last candidate its answer is in last
RECURSIVE Caller(_, _, _, _, _, _)
Caller(h, cands, args, v, known, log) ==
    IF cands = << >>
    THEN [http |-> h, sent |-> log, result |-> Unwrap(UnknownMethod)]
    ELSE LET m   == Head(cands)
             f   == Fetch(h, "POST", "/control",
                          [method |-> m, args |-> args], v,
                          ControlReply(m, known))
             res == Unwrap(f.result)
         IN  IF IsUnknown(res) /\ Tail(cands) # << >>
             THEN Caller(f.http, Tail(cands), args, v, known, log \o f.sent)
             ELSE [http |-> f.http, sent |-> log \o f.sent, result |-> res]

\* sfs.<name>(0) for a name that SFSClient and ControlAPI do not define
Forward ==
    \E n \in ForwardNames : \E known \in KnownSets :
        /\ Resolve(n) = "dynamic"
        /\ LET r == Caller(http, CandidateNames(n), <<0>>, server.version,
                           known, << >>)
           IN  /\ http' = r.http
               /\ sent' = r.sent
               /\ call' = [op |-> "forward", name |-> n, args |-> <<0>>,
                           known |-> known, result |-> r.result]
        /\ UNCHANGED <<calc, server, vcache>>

\* [int(x) for x in text.split('.')]: fails on a part that is not digits
AllInts(text) == \A i \in 1..Len(text) : text[i].k = "int"

IntParts(text) == [i \in 1..Len(text) |-> text[i].n]

\* lines 54-57: the shorter list is filled with zeros
Pad(a, n) == a \o [i \in 1..(n - Len(a)) |-> 0]

\* a >= b for lists of the same length
RECURSIVE ListGe(_, _)
ListGe(a, b) ==
    IF a = << >> THEN TRUE
    ELSE IF Head(a) # Head(b) THEN Head(a) > Head(b)
    ELSE ListGe(Tail(a), Tail(b))

\* only the first number is compared
VersionAtLeastMajor(current, required) ==
    /\ current # <<Empty>>
    /\ AllInts(current)
    /\ IntParts(current)[1] >= required[1]

\* ValuesAPI._check_version, lines 46-61, for the cached text current and
\* the required numbers
VersionAtLeast(current, required) ==
    IF current = <<Empty>> THEN FALSE
    ELSE IF ~ AllInts(current) THEN FALSE
    ELSE LET n == IF Len(current) > Len(required) THEN Len(current)
                  ELSE Len(required)
         IN  ListGe(Pad(IntParts(current), n), Pad(required, n))

\* ValuesAPI._get_version, lines 33-41: the cache after the call, the
\* requests sent, and whether info.version() raised
GetVersion(cache, v) ==
    IF cache # None
    THEN [cache |-> cache, sent |-> << >>, raised |-> FALSE]
    ELSE LET f == Fetch(http, "GET", "/version", NoPayload, v, VersionData(v))
         IN  IF f.result = Raised
             THEN [cache |-> cache, sent |-> f.sent, raised |-> TRUE]
             ELSE [cache |-> [text |-> IF "version" \in DOMAIN f.result
                                       THEN f.result.version
                                       ELSE <<Num(0), Num(0)>>],
                   sent |-> f.sent, raised |-> FALSE]

\* what GET /other answers
OtherReplies ==
    {Raised,
     [gravity |-> [gravityX |-> 1, gravityY |-> 9, gravityMagnitude |-> 9]],
     [gravity |-> [gravityX |-> 1]],
     [landingPoint |-> [landingPoint |-> [angle |-> 45]]],
     [landingPoint |-> [landingPoint |-> << >>]],
     [inertia |-> 1]}

\* _as_float(d.get(k)) or 0.0
FloatOrZero(d, k) == IF k \in DOMAIN d THEN d[k] ELSE 0

\* lines 261-269
GravityOf(data) ==
    IF data # Raised /\ "gravity" \in DOMAIN data
    THEN [gravityX |-> FloatOrZero(data.gravity, "gravityX"),
          gravityY |-> FloatOrZero(data.gravity, "gravityY"),
          gravityMagnitude |-> FloatOrZero(data.gravity, "gravityMagnitude")]
    ELSE None

\* lines 293-301
LandingOf(data) ==
    IF data # Raised /\ "landingPoint" \in DOMAIN data
       /\ "landingPoint" \in DOMAIN data.landingPoint
       /\ DOMAIN data.landingPoint.landingPoint # {}
    THEN data.landingPoint.landingPoint
    ELSE None

\* other_gravity_info (what = "gravity") and other_landing_point (what =
\* "landing"): the version test, then GET /other
OtherInfo(what, reply) ==
    LET g == GetVersion(vcache, server.version)
    IN  IF g.raised
        THEN [cache |-> g.cache, http |-> http, sent |-> g.sent,
              result |-> Raised]
        ELSE IF ~ VersionAtLeast(g.cache.text, <<1, 3>>)
        THEN [cache |-> g.cache, http |-> http, sent |-> g.sent,
              result |-> None]
        ELSE LET f == Fetch(http, "GET", "/other", NoPayload, server.version,
                            reply)
             IN  [cache |-> g.cache, http |-> f.http,
                  sent |-> g.sent \o f.sent,
                  result |-> IF f.result = Raised THEN Raised
                             ELSE IF what = "gravity" THEN GravityOf(f.result)
                             ELSE LandingOf(f.result)]

\* values_api.other_gravity_info()
OtherGravityInfo ==
    \E reply \in OtherReplies :
        LET r == OtherInfo("gravity", reply)
        IN  /\ vcache' = r.cache
            /\ http' = r.http
            /\ sent' = r.sent
            /\ call' = [op |-> "other_gravity_info", result |-> r.result]
            /\ UNCHANGED <<calc, server>>

\* values_api.other_landing_point()
OtherLandingPoint ==
    \E reply \in OtherReplies :
        LET r == OtherInfo("landing", reply)
        IN  /\ vcache' = r.cache
            /\ http' = r.http
            /\ sent' = r.sent
            /\ call' = [op |-> "other_landing_point", result |-> r.result]
            /\ UNCHANGED <<calc, server>>

\* entries of /rocket_sim.partTemperatures: temperatures below, at and
\* above the thresholds, and an entry without a temperature
TempItems ==
    {[id |-> 1, temperature |-> 0], [id |-> 1, temperature |-> 100],
     [id |-> 2, temperature |-> 150], [id |-> 3, temperature |-> -5],
     [id |-> 2]}

TempLists ==
    {<< >>} \cup {<<a>> : a \in TempItems}
            \cup {<<a, b>> : a \in TempItems, b \in TempItems}

PartLists ==
    {<< >>, <<[id |-> 1, name |-> "Engine"]>>,
     <<[id |-> 1, name |-> "Engine"], [id |-> 2, name |-> "Tank"]>>}

MinTemperatures == {0, 100}

\* what GET /rocket_sim answers
SimReplies ==
    {Raised}
    \cup {[parts |-> p] : p \in PartLists}
    \cup {[partTemperatures |-> t, parts |-> p] :
              t \in TempLists, p \in PartLists}

\* f"Part_{part_id}"
DefaultName(id) == <<"Part_1", "Part_2", "Part_3">>[id]

HasTemperature(item) == {"id", "temperature"} \subseteq DOMAIN item

\* part_temperatures, lines 541-551, of the data of /rocket_sim
PartTemperatures(data) ==
    IF "partTemperatures" \in DOMAIN data
    THEN [list |-> SelectSeq(data.partTemperatures, HasTemperature)]
    ELSE None

\* info.parts_list, info.py lines 100-113
PartsList(data) == IF "parts" \in DOMAIN data THEN data.parts ELSE << >>

\* part_id_to_name.get(part_id, f"Part_{part_id}"), lines 571-577 and 588
PartName(parts, id) ==
    LET named == {i \in 1..Len(parts) : parts[i].id = id}
    IN  IF named = {} THEN DefaultName(id)
        ELSE parts[CHOOSE i \in named : \A j \in named : j <= i].name

\* line 587
IsHeated(temperature, min_temperature) == temperature >= min_temperature

\* lines 580-595
HeatedParts(temps, parts, min_temperature) ==
    LET Hot(item) == IsHeated(item.temperature, min_temperature)
        hot == SelectSeq(temps, Hot)
    IN  IF hot = << >> THEN None
        ELSE [parts |-> [i \in 1..Len(hot) |->
                            [id |-> hot[i].id,
                             name |-> PartName(parts, hot[i].id),
                             temperature |-> hot[i].temperature]]]

\* values_api.heated_parts_list(min_temperature = m): two GET /rocket_sim
HeatedPartsList ==
    \E m \in MinTemperatures : \E reply \in SimReplies :
        LET f1 == Fetch(http, "GET", "/rocket_sim", NoPayload, server.version,
                        reply)
            temps == IF f1.result = Raised THEN None
                     ELSE PartTemperatures(f1.result)
            f2 == Fetch(f1.http, "GET", "/rocket_sim", NoPayload,
                        server.version, reply)
            second == temps # None /\ temps.list # << >>
            heated ==
                IF f1.result = Raised THEN Raised
                ELSE IF ~ second THEN None
                ELSE IF PartsList(f2.result) = << >> THEN None
                ELSE HeatedParts(temps.list, PartsList(f2.result), m)
        IN  /\ http' = (IF second THEN f2.http ELSE f1.http)
            /\ sent' = (IF second THEN f1.sent \o f2.sent ELSE f1.sent)
            /\ call' = [op |-> "heated_parts_list", min_temperature |-> m,
                        result |-> heated]
            /\ UNCHANGED <<calc, server, vcache>>

HttpNext ==
    \/ GetJson
    \/ PostJson
    \/ Forward
    \/ OtherGravityInfo
    \/ OtherLandingPoint
    \/ HeatedPartsList

HttpSpec == HttpInit /\ [][HttpNext]_vars

(***************************************************************************)
(* SFSClient.__init__ followed by calls through its HttpClient             *)
(***************************************************************************)
\* the warm-up done through the version check of the HttpClient
WarmUpChecked(h, v) == EnsureVersion(h, v)

\* client.py lines 40-44: info_api.version() is get_json("/version"); what it
\* returns or raises is dropped
WarmUp(h, v) ==
    LET f == Fetch(h, "GET", "/version", NoPayload, v, VersionData(v))
    IN  [http |-> f.http, sent |-> f.sent]

Constructed == [str |-> "SFSClient"]

\* before SFSClient(...): the fields of the HttpClient are those that
\* HttpClient.__init__ is about to set
ClientInit ==
    /\ pc = "new"
    /\ arg = NoArgs
    /\ x = Zero /\ y = Zero /\ vx = Zero /\ vy = Zero
    /\ ax = Zero /\ ay = Zero /\ x_new = Zero /\ y_new = Zero
    /\ dt = Zero
    /\ steps = 0
    /\ result = None
    /\ ret = 0
    /\ seen = {}
    /\ other = NoFrame
    /\ http = HttpFresh
    /\ sent = << >>
    /\ server \in [version : VersionReplies]
    /\ vcache = None
    /\ call = NoCall

\* SFSClient.__init__, client.py lines 26-44
Construct ==
    /\ pc = "new"
    /\ pc' = "idle"
    /\ LET w == WarmUp(HttpFresh, server.version)
       IN  /\ http' = w.http
           /\ sent' = w.sent
    /\ call' = [op |-> "construct", result |-> Constructed]
    /\ UNCHANGED <<arg, x, y, vx, vy, ax, ay, x_new, y_new, dt, steps, result,
                   ret, seen, other, server, vcache>>

\* a call on the constructed client
ClientCall == pc = "idle" /\ (GetJson \/ PostJson)

ClientNext == Construct \/ ClientCall

ClientSpec == ClientInit /\ [][ClientNext]_vars

(***************************************************************************)
(* _is_version_supported on its own                                        *)
(***************************************************************************)
\* the numbers that occur in the version strings
VersionNumbers == {0, 1, 2, 3, 10}

VersionParts ==
    {Num(n) : n \in VersionNumbers} \cup {Junk, Word, Empty, Huge}

\* the longest version string, in parts
MaxParts == 3

\* every version string of up to MaxParts parts
AllVersionTexts ==
    UNION {[1..n -> VersionParts] : n \in 1..MaxParts}

\* HttpClient._is_version_supported(ver)
CheckSupported ==
    \E ver \in AllVersionTexts :
        /\ call = NoCall
        /\ call' = [op |-> "is_version_supported", ver |-> ver,
                    result |-> IsVersionSupported(ver)]
        /\ UNCHANGED <<calc, http, sent, server, vcache>>

VersionNext == CheckSupported

VersionInit ==
    /\ pc = "idle"
    /\ arg = NoArgs
    /\ x = Zero /\ y = Zero /\ vx = Zero /\ vy = Zero
    /\ ax = Zero /\ ay = Zero /\ x_new = Zero /\ y_new = Zero
    /\ dt = Zero
    /\ steps = 0
    /\ result = None
    /\ ret = 0
    /\ OutsideIdle

VersionSpec == VersionInit /\ [][VersionNext]_vars

(***************************************************************************)
(* get_json and post_json against a server that changes between calls      *)
(***************************************************************************)
\* the server goes down, comes back, or is replaced by another version
ServerChange ==
    /\ server' \in [version : VersionReplies]
    /\ server' # server
    /\ UNCHANGED <<calc, http, sent, vcache, call>>

CacheNext == GetJson \/ PostJson \/ ServerChange

CacheSpec == HttpInit /\ [][CacheNext]_vars

(***************************************************************************)
(* The impact test and the refinement of one step in exact arithmetic:     *)
(* positions, steps and the radius are integers, so that every product and *)
(* sum of lines 274-298 is exact.  The roots (-B -+ sqrt(disc)) / (2 A)    *)
(* are compared with 0 and 1 through the squares of both sides.            *)
(***************************************************************************)
\* the largest coordinate, step component and radius
ExactMax == 3

ExactCoords == (0 - ExactMax)..ExactMax

ExactRadii == 1..ExactMax

\* line 282
ExactA(dx, dy) == dx * dx + dy * dy

\* B without the factor 2
ExactBHalved(px, py, dx, dy) == px * dx + py * dy

\* line 283
ExactB(px, py, dx, dy) == 2 * (px * dx + py * dy)

\* line 284
ExactC(px, py, R) == (px * px + py * py) - R * R

\* line 286
ExactDisc(A, B, C) == B * B - 4 * A * C

\* 0 <= s1 <= 1 for s1 = (-B - sqrt(disc)) / (2 A), with A > 0, disc >= 0
FirstRootInRange(A, B, disc) ==
    /\ 0 - B >= 0 /\ disc <= B * B
    /\ (0 - B - 2 * A <= 0) \/ ((B + 2 * A) * (B + 2 * A) <= disc)

\* 0 <= s2 <= 1 for s2 = (-B + sqrt(disc)) / (2 A), with A > 0, disc >= 0
SecondRootInRange(A, B, disc) ==
    /\ (B <= 0) \/ (B * B <= disc)
    /\ 2 * A + B >= 0 /\ disc <= (2 * A + B) * (2 * A + B)

\* lines 274-298 for a step from (px, py), outside the circle, by (dx, dy):
\* the quantities of the quadratic and the return statement that is reached
ExactSegment(px, py, dx, dy, R) ==
    LET d2_new == (px + dx) * (px + dx) + (py + dy) * (py + dy)
        A      == ExactA(dx, dy)
        B      == ExactB(px, py, dx, dy)
        C      == ExactC(px, py, R)
        disc   == ExactDisc(A, B, C)
        first  == A > 0 /\ disc >= 0 /\ FirstRootInRange(A, B, disc)
        second == A > 0 /\ disc >= 0 /\ SecondRootInRange(A, B, disc)
    IN  [op |-> "segment", px |-> px, py |-> py, dx |-> dx, dy |-> dy,
         R |-> R, A |-> A, B |-> B, C |-> C, disc |-> disc,
         hit |-> d2_new <= R * R, first |-> first, second |-> second,
         ret |-> IF d2_new > R * R THEN 0
                 ELSE IF first \/ second THEN 296 ELSE 298]

ExactInit ==
    /\ pc = "idle"
    /\ arg = NoArgs
    /\ x = Zero /\ y = Zero /\ vx = Zero /\ vy = Zero
    /\ ax = Zero /\ ay = Zero /\ x_new = Zero /\ y_new = Zero
    /\ dt = Zero
    /\ steps = 0
    /\ result = None
    /\ ret = 0
    /\ OutsideIdle

\* one step that starts strictly outside the circle (the loop invariant)
ExactStep ==
    \E px \in ExactCoords, py \in ExactCoords, dx \in ExactCoords,
       dy \in ExactCoords, R \in ExactRadii :
        /\ call = NoCall
        /\ px * px + py * py > R * R
        /\ call' = ExactSegment(px, py, dx, dy, R)
        /\ UNCHANGED <<calc, http, sent, server, vcache>>

ExactNext == ExactStep

ExactSpec == ExactInit /\ [][ExactNext]_vars

\* the state machine and the function agree
ResultIsImpactPoint == pc = "done" => result = ImpactPoint(arg)

(***************************************************************************)
(* Properties                                                              *)
(***************************************************************************)
IsPair(r) == DOMAIN r = {"x", "y"}

StartDist2 == FAdd(FMul(arg.rocket_x, arg.rocket_x), FMul(arg.rocket_y, arg.rocket_y))

RSquared == FMul(arg.planet_radius, arg.planet_radius)

\* C1: a call whose start satisfies x*x + y*y <= R*R returns exactly the
\* start position and runs no integration step, whatever the velocity, the
\* gravity, dt and max_steps are.
C1_ImmediateHit ==
    (pc # "entry" /\ FLe(StartDist2, RSquared)) =>
        /\ pc = "done"
        /\ result = [x |-> arg.rocket_x, y |-> arg.rocket_y]
        /\ steps = 0

\* a start exactly on the surface, moving, with max_steps = 0
C1_Witness ==
    /\ pc = "done"
    /\ StartDist2 = RSquared
    /\ arg.vel_x # Zero
    /\ arg.max_steps = 0
    /\ result = [x |-> arg.rocket_x, y |-> arg.rocket_y]

Between(a, b, c) == (FLe(a, b) /\ FLe(b, c)) \/ (FLe(c, b) /\ FLe(b, a))

\* the point r0 + s * delta of the last step's segment, as line 294-295 compute it
SegPoint(s) ==
    [x |-> FAdd(x, FMul(s, FSub(x_new, x))), y |-> FAdd(y, FMul(s, FSub(y_new, y)))]

\* the returned point is r0 + s * delta for the smallest root s in [0, 1]
ReturnsEntryPoint ==
    LET c == SegCandidates(x, y, x_new, y_new, RSquared)
    IN  /\ c # << >>
        /\ \E i \in 1..Len(c) :
               /\ \A j \in 1..Len(c) : FLe(c[i], c[j])
               /\ result = SegPoint(c[i])

\* C3 as stated: a refined result is r0 + s * delta for the smallest root s
\* in [0, 1] and lies at distance exactly R from the origin.
C3_RefinedExactlyOnCircle ==
    ret = 296 =>
        /\ ReturnsEntryPoint
        /\ FAdd(FMul(result.x, result.x), FMul(result.y, result.y)) = RSquared

\* C3 as the code has it: a refined result is r0 + s * delta for the smallest
\* root s in [0, 1], each coordinate between that of r0 and of r0 + delta,
\* and at distance R from the origin up to the rounding of the float
\* operations: |x^2 + y^2 - R^2| is at most 4 ulp of |r0|^2 + |delta|^2.
C3_RefinedEntryPoint ==
    ret = 296 =>
        /\ ReturnsEntryPoint
        /\ Between(x, result.x, FAdd(x, FSub(x_new, x)))
        /\ Between(y, result.y, FAdd(y, FSub(y_new, y)))
        /\ FLe(FAbs(FSub(FAdd(FMul(result.x, result.x), FMul(result.y, result.y)),
                         RSquared)),
               FMul(FMul(F(4, 0), Ulp),
                    FAdd(FAdd(FMul(x, x), FMul(y, y)), SegA(x, y, x_new, y_new))))

\* a step that ends on the far side of the circle: both roots lie in [0, 1]
\* and the entry point is returned
C3_Witness ==
    /\ ret = 296
    /\ LET c == SegCandidates(x, y, x_new, y_new, RSquared)
       IN  Len(c) = 2 /\ FLt(c[1], c[2]) /\ result = SegPoint(c[1])

\* the squared distance of the last step's end position
EndDist2 == FAdd(FMul(x_new, x_new), FMul(y_new, y_new))

\* C4: whenever a step ends at squared distance <= R*R the call returns a
\* coordinate pair, never None; if the quadratic has no root in [0, 1] the
\* pair is the step's raw ending position (x_new, y_new).
C4_RefinementFallback ==
    (steps >= 1 /\ FLe(EndDist2, RSquared)) =>
        /\ pc = "done"
        /\ IsPair(result)
        /\ SegCandidates(x, y, x_new, y_new, RSquared) = << >> =>
               result = [x |-> x_new, y |-> y_new]

\* a step that ends within the surface (as computed) while the quadratic of
\* its segment has no root in [0, 1]: the raw ending position is returned
C4_Witness ==
    /\ pc = "done" /\ steps >= 1
    /\ FLe(EndDist2, RSquared)
    /\ SegCandidates(x, y, x_new, y_new, RSquared) = << >>
    /\ result = [x |-> x_new, y |-> y_new]

\* (10^6 * R)^2
DivergenceBound ==
    FMul(FMul(F(1, 6), arg.planet_radius), FMul(F(1, 6), arg.planet_radius))

\* C5: if a step's new position has squared distance > (10^6 * R)^2 the call
\* returns None at that step: no further step runs, and position, velocity
\* and acceleration are still those the step started from (the new position
\* is the one they give).
C5_EscapeTermination ==
    (steps >= 1 /\ FGt(EndDist2, DivergenceBound)) =>
        /\ pc = "done"
        /\ result = None
        /\ x_new = FAdd(x, FMul(dt, FAdd(vx, FMul(FMul(F(5, 0 - 1), dt), ax))))
        /\ y_new = FAdd(y, FMul(dt, FAdd(vy, FMul(FMul(F(5, 0 - 1), dt), ay))))

\* an escape under gravity: the first step ends beyond the bound
C5_Witness ==
    /\ pc = "done" /\ steps >= 1
    /\ FGt(EndDist2, DivergenceBound)
    /\ result = None
    /\ arg.gravity # Zero
    /\ x # x_new

\* the number of iterations max_steps allows
Budget == IF arg.max_steps > 0 THEN arg.max_steps ELSE 0

\* C6: every call terminates, after at most max_steps integration steps, and
\* a call whose max_steps steps all end outside R and within the divergence
\* bound returns None.  Termination is by a variant: every transition leaves
\* "entry" for good or is one of at most max(0, max_steps) iterations or is
\* the return, so no behaviour takes more than max(0, max_steps) + 2
\* transitions, and only a state that has returned has no transition left.
C6_StepBudget ==
    /\ [](pc \in {"entry", "loop", "done"} /\ steps \in 0..Budget)
    /\ [][\/ pc = "entry" /\ pc' \in {"loop", "done"} /\ steps' = 0
          \/ /\ pc = "loop" /\ steps < Budget
             /\ steps' = steps + 1 /\ pc' \in {"loop", "done"}
          \/ pc = "loop" /\ steps = Budget /\ pc' = "done" /\ steps' = steps
         ]_vars
    /\ []((/\ pc = "done"
           /\ ~ FLe(StartDist2, RSquared)
           /\ steps >= 1 => (~ FLe(EndDist2, RSquared)
                             /\ ~ FGt(EndDist2, DivergenceBound)))
          => (result = None /\ steps = Budget))

\* a call that used its whole budget of MaxSteps steps under gravity
C6_Witness ==
    /\ pc = "done"
    /\ steps = MaxSteps /\ arg.max_steps = MaxSteps
    /\ arg.gravity # Zero
    /\ ~ FLe(EndDist2, RSquared) /\ ~ FGt(EndDist2, DivergenceBound)
    /\ result = None

\* a call without gravity that starts outside R on the positive x axis and
\* moves along the axis toward the body, with a positive time step
AxisApproach ==
    /\ arg.gravity = Zero
    /\ arg.rocket_y = Zero /\ arg.vel_y = Zero
    /\ FGt(arg.rocket_x, arg.planet_radius)
    /\ FLt(arg.vel_x, Zero)
    /\ FGt(arg.dt, Zero)

\* the call returned from inside the loop: the step budget did not run out
ReturnedInLoop == pc = "done" /\ steps >= 1 /\ (result # None \/ steps < Budget)

\* C7: a zero-gravity straight-line approach whose line meets the circle
\* returns the analytic first intersection for every positive dt; for an
\* approach along the x axis from x > R that is the point (R, 0), here up to
\* four units in the last place of the start coordinate.
C7_AxisApproachAnyDt ==
    (AxisApproach /\ ReturnedInLoop) =>
        /\ IsPair(result)
        /\ result.y = Zero
        /\ FLe(FAbs(FSub(result.x, arg.planet_radius)),
               FMul(FMul(F(4, 0), Ulp), arg.rocket_x))

\* the same for the time steps that cannot carry the position across the
\* body in one step: dt * |v| <= 2 * R
C7_AxisApproachShortStep ==
    (/\ AxisApproach /\ ReturnedInLoop
     /\ FLe(FMul(arg.dt, FAbs(arg.vel_x)), FMul(F(2, 0), arg.planet_radius)))
    => /\ IsPair(result)
       /\ result.y = Zero
       /\ FLe(FAbs(FSub(result.x, arg.planet_radius)),
              FMul(FMul(F(4, 0), Ulp), arg.rocket_x))

\* (p - start) x v0: zero exactly when p is on the line through the start
\* along the initial velocity
Cross(px, py) ==
    FSub(FMul(FSub(px, arg.rocket_x), arg.vel_y),
         FMul(FSub(py, arg.rocket_y), arg.vel_x))

\* the size of the terms of Cross(px, py)
CrossScale(px, py) ==
    FAdd(FMul(FAdd(FAbs(px), FAbs(arg.rocket_x)), FAbs(arg.vel_y)),
         FMul(FAdd(FAbs(py), FAbs(arg.rocket_y)), FAbs(arg.vel_x)))

\* p is on the line up to the rounding of steps + 1 position updates
NearLine(px, py) ==
    FLe(FAbs(Cross(px, py)),
        FMul(FMul(F(steps + 1, 0), Ulp), CrossScale(px, py)))

\* the start is outside R and the velocity points at the origin
AimedAtOrigin ==
    /\ FGt(StartDist2, RSquared)
    /\ FMul(arg.rocket_x, arg.vel_y) = FMul(arg.rocket_y, arg.vel_x)
    /\ FLt(FAdd(FMul(arg.rocket_x, arg.vel_x), FMul(arg.rocket_y, arg.vel_y)),
           Zero)

\* C8 as stated: with g = 0 the velocity is the same at every step, every
\* visited position lies exactly on the line through the start along the
\* initial velocity, a projectile aimed at the origin from outside R yields a
\* point on that line at distance exactly R, and the example returns (10, 0).
C8_ZeroGravityExactLine ==
    arg.gravity = Zero =>
        /\ pc # "entry" =>
               /\ vx = arg.vel_x /\ vy = arg.vel_y
               /\ Cross(x, y) = Zero
               /\ steps >= 1 => Cross(x_new, y_new) = Zero
        /\ (AimedAtOrigin /\ ReturnedInLoop) =>
               /\ IsPair(result)
               /\ Cross(result.x, result.y) = Zero
               /\ FAdd(FMul(result.x, result.x), FMul(result.y, result.y))
                      = RSquared
        /\ (pc = "done" /\ arg = Example(DefaultDt)) =>
               result = [x |-> F(10, 0), y |-> F(0, 0)]

\* C8 (amended): with g = 0 the acceleration is zero and the velocity is
\* exactly the initial velocity at every step; every visited position is on
\* the line through the start along the initial velocity up to the rounding
\* of the position updates, and exactly so in a coordinate that the velocity
\* leaves alone; a coordinate pair returned for a projectile aimed at the
\* origin from outside R is on that line and at distance R up to rounding;
\* the example returns exactly (10, 0).
C8_ZeroGravityLine ==
    arg.gravity = Zero =>
        /\ pc # "entry" =>
               /\ vx = arg.vel_x /\ vy = arg.vel_y
               /\ ax = Zero /\ ay = Zero
               /\ NearLine(x, y)
               /\ steps >= 1 => NearLine(x_new, y_new)
               /\ arg.vel_x = Zero =>
                      (x = arg.rocket_x /\ (steps >= 1 => x_new = arg.rocket_x))
               /\ arg.vel_y = Zero =>
                      (y = arg.rocket_y /\ (steps >= 1 => y_new = arg.rocket_y))
        /\ (pc = "done" /\ IsPair(result)) =>
               /\ NearLine(result.x, result.y)
               /\ arg.vel_x = Zero => result.x = arg.rocket_x
               /\ arg.vel_y = Zero => result.y = arg.rocket_y
        /\ (AimedAtOrigin /\ pc = "done" /\ IsPair(result)) =>
               FLe(FAbs(FSub(FAdd(FMul(result.x, result.x),
                                  FMul(result.y, result.y)), RSquared)),
                   FMul(FMul(F(4, 0), Ulp), FAdd(StartDist2, RSquared)))
        /\ (pc = "done" /\ arg = Example(DefaultDt)) =>
               result = [x |-> F(10, 0), y |-> F(0, 0)]

\* a projectile aimed at the origin along a line that is not parallel to an
\* axis reaches the surface after several steps without gravity
C8_Witness ==
    /\ arg.gravity = Zero /\ AimedAtOrigin
    /\ arg.vel_x # Zero /\ arg.vel_y # Zero
    /\ pc = "done" /\ steps >= 2 /\ IsPair(result)
    /\ vx = arg.vel_x /\ vy = arg.vel_y

\* the same call with dt = 0.02
WithDefaultDt == [arg EXCEPT !.dt = DefaultDt]

\* C9: a call with dt <= 0 raises no error and returns exactly the result of
\* the same call with dt = 0.02.
C9_DtDefaulting ==
    (pc = "done" /\ FLe(arg.dt, Zero)) =>
        /\ result = ImpactPoint(WithDefaultDt)
        /\ result = None \/ IsPair(result)

\* calls with dt = 0 and dt < 0 that integrate several steps and return a
\* coordinate pair
C9_Witness ==
    /\ pc = "done" /\ steps >= 2
    /\ FLe(arg.dt, Zero)
    /\ IsPair(result)
    /\ result = ImpactPoint(WithDefaultDt)

\* C10: with R > 0 and g >= 0 every position at which an acceleration is
\* computed (the start after the immediate-hit check and every accepted
\* step-end position) has strictly positive distance from the origin, no
\* division is by zero, and every call ends with a coordinate pair or None.
C10_NoDivisionByZero ==
    (FGt(arg.planet_radius, Zero) /\ FLe(Zero, arg.gravity)) =>
        /\ result # ZeroDivisionError
        /\ pc = "loop" =>
               /\ FGt(FAdd(FMul(x, x), FMul(y, y)), Zero)
               /\ FGt(FSqrt(FAdd(FMul(x, x), FMul(y, y))), Zero)
        /\ pc = "done" => (result = None \/ IsPair(result))

\* an accepted step-end position under gravity, with its acceleration
C10_Witness ==
    /\ pc = "loop" /\ steps >= 1
    /\ FGt(arg.gravity, Zero)
    /\ x = x_new /\ y = y_new
    /\ (ax # Zero \/ ay # Zero)
    /\ FGt(FSqrt(FAdd(FMul(x, x), FMul(y, y))), Zero)

\* the calls that have returned so far, the one in progress included
Returned ==
    seen \cup (IF pc = "done" THEN {[arg |-> arg, result |-> result]} ELSE {})

\* C11: two calls with identical arguments return identical results,
\* whatever calls were made before or in between.
C11_Determinism ==
    \A p, q \in Returned : p.arg = q.arg => p.result = q.result

\* a call with dt <= 0 returns a pair for the second time, after a call
\* with another dt and another result returned in between
C11_Witness ==
    /\ pc = "done" /\ IsPair(result)
    /\ FLe(arg.dt, Zero)
    /\ [arg |-> arg, result |-> result] \in seen
    /\ \E p \in seen : p.arg.dt # arg.dt /\ p.result # result
    /\ FGt(dt, Zero)

\* C12: impact_point sends no request and leaves every field of the CalcAPI
\* instance and of the HttpClient (_version_checked, _supported,
\* _version_text) unchanged, and of two calls interleaved step by step each
\* returns what it returns when run alone.
C12_Purity ==
    /\ [][http' = http /\ sent' = sent]_vars
    /\ [](sent = << >>)
    /\ [](pc = "done" => result = ImpactPoint(arg))
    /\ [](other.pc = "done" => other.result = ImpactPoint(other.arg))

\* both calls have returned, with different results, after steps of the one
\* ran between steps of the other, on a client whose version is checked
C12_Witness ==
    /\ pc = "done" /\ other.pc = "done"
    /\ steps >= 1 /\ other.steps >= 1
    /\ arg # other.arg
    /\ IsPair(result) /\ IsPair(other.result) /\ result # other.result
    /\ http.version_checked

\* the start is outside R and the velocity points radially outward
RadialOutward ==
    /\ FGt(StartDist2, RSquared)
    /\ FMul(arg.rocket_x, arg.vel_y) = FMul(arg.rocket_y, arg.vel_x)
    /\ FGt(FAdd(FMul(arg.rocket_x, arg.vel_x), FMul(arg.rocket_y, arg.vel_y)),
           Zero)

\* the speed exceeds the escape speed sqrt(2 g R^2 / r) of the start
ExceedsEscapeSpeed ==
    FGt(FAdd(FMul(arg.vel_x, arg.vel_x), FMul(arg.vel_y, arg.vel_y)),
        FDiv(FMul(F(2, 0), FMul(arg.gravity, RSquared)), FSqrt(StartDist2)))

\* the half-step velocity of the step about to run moves neither coordinate
\* toward zero
OutwardHalfStep ==
    /\ FLe(Zero, FMul(x, FAdd(vx, FMul(FMul(F(5, 0 - 1), dt), ax))))
    /\ FLe(Zero, FMul(y, FAdd(vy, FMul(FMul(F(5, 0 - 1), dt), ay))))

\* C13 as stated: from a start outside R with radially outward velocity
\* above escape speed no coordinate pair is ever returned, the distance from
\* the origin increases at every step, and the call returns None.
C13_EscapeAnyDt ==
    /\ []((RadialOutward /\ ExceedsEscapeSpeed /\ pc = "done")
            => result = None)
    /\ [][(RadialOutward /\ ExceedsEscapeSpeed /\ steps' = steps + 1)
            => FGt(FAdd(FMul(x_new', x_new'), FMul(y_new', y_new')),
                   FAdd(FMul(x, x), FMul(y, y)))]_vars

\* C13 (amended): a step whose half-step velocity moves neither coordinate
\* toward zero does not decrease the distance from the origin and returns no
\* coordinate pair; without gravity every step of a radially outward start
\* is such a step, and the call returns None, by the divergence bound or by
\* step-budget exhaustion.
C13_EscapeOutwardSteps ==
    /\ [][(pc = "loop" /\ steps' = steps + 1 /\ OutwardHalfStep)
            => /\ FLe(FAdd(FMul(x, x), FMul(y, y)),
                      FAdd(FMul(x_new', x_new'), FMul(y_new', y_new')))
               /\ ~ IsPair(result')
               /\ ret' \in {0, 301}]_vars
    /\ []((RadialOutward /\ arg.gravity = Zero)
            => /\ pc = "loop" => OutwardHalfStep
               /\ pc = "done" => (result = None /\ ret \in {301, 318}))

\* a start above escape speed under gravity whose steps all move outward:
\* the call ends with None after several steps
C13_Witness ==
    /\ RadialOutward /\ ExceedsEscapeSpeed
    /\ FGt(arg.gravity, Zero)
    /\ pc = "done" /\ steps >= 2
    /\ result = None
    /\ FGt(FAdd(FMul(x_new, x_new), FMul(y_new, y_new)), StartDist2)
    /\ FGt(FMul(vx, arg.vel_x), Zero)

\* C14 as stated: from a start at any radius r > R with the velocity of the
\* circular orbit, perpendicular to the position, the call with the default
\* dt returns no impact point within the steps that cover one period.
C14_OrbitAnyRadius ==
    (/\ arg \in ClearOrbits \cup SkimOrbits
     /\ FGt(StartDist2, RSquared)
     /\ FAdd(FMul(arg.rocket_x, arg.vel_x), FMul(arg.rocket_y, arg.vel_y))
            = Zero)
    => /\ ~ IsPair(result)
       /\ pc = "done" => result = None

\* C14 (amended): the same for a start well above the surface, here r = 2 R.
C14_OrbitClearOfSurface ==
    arg \in ClearOrbits =>
        /\ FGt(StartDist2, RSquared)
        /\ FAdd(FMul(arg.rocket_x, arg.vel_x), FMul(arg.rocket_y, arg.vel_y))
               = Zero
        /\ ~ IsPair(result)
        /\ pc # "entry" => FGt(FAdd(FMul(x, x), FMul(y, y)), RSquared)
        /\ pc = "done" => (result = None /\ steps = arg.max_steps)

\* the orbit at 2 R has gone round: the last of the steps that cover the
\* period ends in the quadrant the orbit started from
C14_Witness ==
    /\ arg = OrbitCall(F(1, 3), F(10, 0), F(20, 0), OrbitSteps)
    /\ pc = "done" /\ steps = OrbitSteps
    /\ result = None
    /\ FGt(x, Zero) /\ FLe(FAbs(y), x)

\* the version the server reports is below 1.2: digits only, read as x.y
BelowOneTwo(v) ==
    /\ v.kind = "ok"
    /\ \A i \in 1..Len(v.text) : v.text[i].k = "int"
    /\ \/ v.text[1].n < 1
       \/ v.text[1].n = 1 /\ (Len(v.text) < 2 \/ v.text[2].n < 2)

\* C15: once the version check of a client has ended 'not supported', every
\* get_json and post_json with a path other than "/version" returns the dict
\* {"result": "PySFS only supports SFSControl v1.2 and above"} and sends no
\* request to that path, while a call with path "/version" is always sent;
\* the check ends 'not supported' when the /version request failed and when
\* the version is below 1.2.
C15_VersionGate ==
    call.op \in {"get_json", "post_json"} =>
        /\ (call.path # "/version" /\ http.version_checked
            /\ ~ http.supported)
           => /\ call.result
                     = [result |->
                        [str |-> "PySFS only supports SFSControl v1.2 and above"]]
              /\ \A i \in 1..Len(sent) : sent[i].path # call.path
        /\ call.path = "/version"
           => /\ Len(sent) = 1 /\ sent[1].path = "/version"
              /\ sent[1].verb = IF call.op = "get_json" THEN "GET" ELSE "POST"
        /\ (http.version_checked
            /\ (server.version.kind = "fail" \/ BelowOneTwo(server.version)))
           => ~ http.supported

\* a POST /control on a client whose earlier version check failed: refused
\* without any request
C15_Witness ==
    /\ call.op = "post_json" /\ call.path = "/control"
    /\ server.version.kind = "fail"
    /\ http.version_checked /\ ~ http.supported
    /\ call.result = UnsupportedMsg
    /\ sent = << >>

\* the requests of the latest call that went to /control
ControlRequests == SelectSeq(sent, LAMBDA q : q.path = "/control")

\* C16 as stated: on a supported server the first request of sfs.<name>(0),
\* for a name not defined on SFSClient, is POST /control with payload
\* {"method": name, "args": [0]}, and its result is returned when the
\* server does not answer 'Unknown method'.
C16_ForwardFirstRequest ==
    (call.op = "forward" /\ http.supported) =>
        /\ Len(sent) >= 1
        /\ sent[1] = [verb |-> "POST", path |-> "/control",
                      payload |-> [method |-> call.name, args |-> call.args]]
        /\ call.name \in call.known => call.result = [str |-> "Success"]

\* C16 (amended): the first request to /control is that POST, and all that
\* can precede it is the one GET /version of a client that has not checked
\* the version yet; when the server knows the name, its answer is returned
\* and no other candidate is tried.
C16_ForwardFirstControlRequest ==
    (call.op = "forward" /\ http.supported) =>
        /\ Len(ControlRequests) >= 1
        /\ ControlRequests[1]
               = [verb |-> "POST", path |-> "/control",
                  payload |-> [method |-> call.name, args |-> call.args]]
        /\ \/ sent = ControlRequests
           \/ sent = <<[verb |-> "GET", path |-> "/version",
                        payload |-> [none |-> TRUE]]>> \o ControlRequests
        /\ call.name \in call.known
           => (call.result = [str |-> "Success"] /\ Len(ControlRequests) = 1)

\* sfs.UsePart(0) on a new client of a server that knows UsePart
C16_Witness ==
    /\ call.op = "forward"
    /\ call.name = <<"U", "s", "e", "P", "a", "r", "t">>
    /\ call.name \in call.known
    /\ http.supported
    /\ Len(sent) = 2 /\ sent[1].path = "/version"
    /\ sent[2].payload = [method |-> call.name, args |-> <<0>>]
    /\ call.result = [str |-> "Success"]

\* the candidates of "use_Part" and of "UsePart" are those CPython computes
CandidatesAsInPython ==
    /\ CandidateNames(<<"u", "s", "e", "_", "P", "a", "r", "t">>)
         = << <<"u", "s", "e", "_", "P", "a", "r", "t">>,
              <<"U", "s", "e", "_", "P", "a", "r", "t">>,
              <<"U", "s", "e", "P", "a", "r", "t">>,
              <<"u", "s", "e", "P", "a", "r", "t">>,
              <<"u", "s", "e", "_", "p", "a", "r", "t">>,
              <<"U", "S", "E", "_", "P", "A", "R", "T">>,
              <<"U", "s", "e", "_", "p", "a", "r", "t">> >>
    /\ CandidateNames(<<"U", "s", "e", "P", "a", "r", "t">>)
         = << <<"U", "s", "e", "P", "a", "r", "t">>,
              <<"u", "s", "e", "p", "a", "r", "t">>,
              <<"U", "S", "E", "P", "A", "R", "T">>,
              <<"U", "s", "e", "p", "a", "r", "t">> >>

\* the server answers /version, and the version it reports is below 1.3 or
\* is not a list of dotted integers (an answer without a version counts as
\* "0.0")
BelowOneThreeOrUnparsable ==
    \/ server.version.kind \in {"noversion", "notdict"}
    \/ /\ server.version.kind = "ok"
       /\ LET t == server.version.text
          IN  \/ \E i \in 1..Len(t) : t[i].k # "int"
              \/ t[1].n < 1
              \/ t[1].n = 1 /\ (Len(t) < 2 \/ t[2].n < 3)

\* C17: other_gravity_info and other_landing_point return None and send no
\* /other request when the server's version is below 1.3 (compared number
\* by number, the shorter list filled with zeros) or is not dotted integers.
C17_VersionOneThree ==
    (call.op \in {"other_gravity_info", "other_landing_point"}
     /\ BelowOneThreeOrUnparsable)
    => /\ call.result = None
       /\ \A i \in 1..Len(sent) : sent[i].path # "/other"

\* version 1.2.5 passes the gate of the HTTP client but not the 1.3 test:
\* the version is fetched and nothing else is sent
C17_Witness ==
    /\ call.op = "other_gravity_info"
    /\ server.version = [kind |-> "ok", text |-> <<Num(1), Num(2), Num(5)>>]
    /\ call.result = None
    /\ sent = <<[verb |-> "GET", path |-> "/version",
                 payload |-> [none |-> TRUE]]>>
    /\ vcache = [text |-> <<Num(1), Num(2), Num(5)>>]

\* with version 1.3 or above the data of /other is returned
C17_DataReturned ==
    /\ call.op = "other_landing_point"
    /\ call.result = [angle |-> 45]
    /\ \E i \in 1..Len(sent) : sent[i].path = "/other"

HeatedReturned ==
    /\ call.op = "heated_parts_list"
    /\ call.result # None
    /\ call.result # Raised

\* C18: heated_parts_list returns only parts whose temperature is higher
\* than min_temperature: no returned entry has a temperature equal to or
\* below min_temperature.
C18_HeatedAboveThreshold ==
    HeatedReturned
    => \A i \in 1..Len(call.result.parts) :
           call.result.parts[i].temperature > call.min_temperature

\* what the code does: no returned entry is below min_temperature
C18_HeatedAtLeastThreshold ==
    HeatedReturned
    => \A i \in 1..Len(call.result.parts) :
           call.result.parts[i].temperature >= call.min_temperature

\* a part exactly at the threshold is returned
C18_AtThresholdReturned ==
    /\ HeatedReturned
    /\ \E i \in 1..Len(call.result.parts) :
           call.result.parts[i].temperature = call.min_temperature

\* -mu p / d^3 as the code rounds it, at the position (px, py)
GravityAt(p, px, py) ==
    LET d2 == FAdd(FMul(px, px), FMul(py, py))
        d  == FSqrt(d2)
    IN  FMul(FMul(FNeg(mu), p), FDiv(FDiv(F(1, 0), d), d2))

Half == F(5, 0 - 1)

\* the velocity after half a step of the stored acceleration
HalfStepVx == FAdd(vx, FMul(FMul(Half, dt), ax))

HalfStepVy == FAdd(vy, FMul(FMul(Half, dt), ay))

\* C19: Velocity-Verlet step order.  At the start of every step the stored
\* acceleration (ax, ay) is the gravity acceleration at the stored position
\* (x, y); in every step the half-step velocity uses that acceleration, the
\* new position uses the half-step velocity, and in a step that continues
\* the new acceleration is the gravity at the new position and the velocity
\* is completed with the new acceleration.
C19_VerletStepOrder ==
    /\ [](pc = "loop" => /\ ax = GravityAt(x, x, y)
                         /\ ay = GravityAt(y, x, y))
    /\ [][(pc = "loop" /\ steps' = steps + 1)
          => /\ x_new' = FAdd(x, FMul(dt, HalfStepVx))
             /\ y_new' = FAdd(y, FMul(dt, HalfStepVy))
             /\ pc' = "loop"
                => /\ x' = x_new' /\ y' = y_new'
                   /\ ax' = GravityAt(x_new', x_new', y_new')
                   /\ ay' = GravityAt(y_new', x_new', y_new')
                   /\ vx' = FAdd(HalfStepVx, FMul(FMul(Half, dt), ax'))
                   /\ vy' = FAdd(HalfStepVy, FMul(FMul(Half, dt), ay'))]_vars

\* two steps under gravity have been taken and a third starts: position,
\* velocity and acceleration have all changed
C19_Witness ==
    /\ pc = "loop"
    /\ steps = 2
    /\ arg.gravity # Zero
    /\ ax # Zero /\ ay # Zero
    /\ vx # arg.vel_x /\ vy # arg.vel_y
    /\ x # arg.rocket_x /\ y # arg.rocket_y
    /\ x = x_new /\ y = y_new

\* the distance d of the stored position from the origin
StoredDist == FSqrt(FAdd(FMul(x, x), FMul(y, y)))

\* g * (R / d)^2 at the stored position
SurfaceGravityScaled ==
    LET q == FDiv(arg.planet_radius, StoredDist)
    IN  FMul(arg.gravity, FMul(q, q))

\* |(ax, ay)|
StoredAccelMagnitude == FSqrt(FAdd(FMul(ax, ax), FMul(ay, ay)))

\* a and b differ by at most k units in the last place of b
WithinUlps(a, b, k) ==
    FLe(FAbs(FSub(a, b)), FMul(FMul(F(k, 0), Ulp), FAbs(b)))

\* the component a of the acceleration points from the coordinate p toward 0
TowardOrigin(a, p) ==
    /\ FGt(p, Zero) => FLt(a, Zero)
    /\ FLt(p, Zero) => FGt(a, Zero)
    /\ p = Zero => a = Zero

\* the roundings that separate two ways of computing the acceleration, in
\* units in the last place
RoundingUlps == 4

\* C20: gravity model.  At every position (x, y) where an acceleration is
\* evaluated (the start of every step) the acceleration is
\* (-mu x / d^3, -mu y / d^3) with mu = g R^2 and d the distance from the
\* origin: for g > 0 it points from the position toward the origin, its
\* magnitude is g (R / d)^2 up to rounding, and it is zero when g = 0.
C20_GravityModel ==
    pc = "loop"
    => LET g      == arg.gravity
           R      == arg.planet_radius
           gR2    == FMul(g, FMul(R, R))
           d      == StoredDist
           inv_d3 == FDiv(FDiv(F(1, 0), d), FMul(d, d))
       IN  /\ WithinUlps(ax, FMul(FMul(FNeg(gR2), x), inv_d3), RoundingUlps)
           /\ WithinUlps(ay, FMul(FMul(FNeg(gR2), y), inv_d3), RoundingUlps)
           /\ FGt(g, Zero) => TowardOrigin(ax, x) /\ TowardOrigin(ay, y)
           /\ WithinUlps(StoredAccelMagnitude, SurfaceGravityScaled,
                         RoundingUlps)
           /\ g = Zero => ax = Zero /\ ay = Zero

\* after a step under gravity the rocket is in the first quadrant and is
\* pulled down and to the left
C20_Witness ==
    /\ pc = "loop"
    /\ steps >= 1
    /\ FGt(arg.gravity, Zero)
    /\ FGt(x, Zero) /\ FGt(y, Zero)
    /\ FLt(ax, Zero) /\ FLt(ay, Zero)

\* x*x + y*y of the stored position
StoredDist2 == FAdd(FMul(x, x), FMul(y, y))

\* (10^6 R)^2 as the code computes it
EscapeBound2 == FMul(F(1, 12), FMul(arg.planet_radius, arg.planet_radius))

\* C21: loop invariant.  At the start of every integration step the current
\* position is strictly outside the surface, and from the second step on it
\* is within the divergence bound; a position becomes the current position
\* only when it passed the impact test and the escape test of its step, and
\* a step that returns leaves the current position as it was.
C21_LoopInvariant ==
    /\ [](pc = "loop" => FGt(StoredDist2, RSquared))
    /\ [](pc = "loop" /\ steps >= 1 => FLe(StoredDist2, EscapeBound2))
    /\ [][(pc = "loop" /\ steps' = steps + 1)
          => LET d2_new == FAdd(FMul(x_new', x_new'), FMul(y_new', y_new'))
                 passed == FGt(d2_new, RSquared) /\ FLe(d2_new, EscapeBound2)
             IN  /\ passed => pc' = "loop" /\ x' = x_new' /\ y' = y_new'
                 /\ ~ passed => pc' = "done" /\ x' = x /\ y' = y]_vars

\* a third step starts from a committed position that differs from the start
C21_Witness ==
    /\ pc = "loop"
    /\ steps = 2
    /\ x = x_new /\ y = y_new
    /\ <<x, y>> # <<arg.rocket_x, arg.rocket_y>>
    /\ FGt(StoredDist2, RSquared)
    /\ FLe(StoredDist2, EscapeBound2)

\* x*x + y*y of the returned point
ResultDist2 == FAdd(FMul(result.x, result.x), FMul(result.y, result.y))

\* C22 as stated: every coordinate pair returned has squared distance
\* <= R*R from the origin; no returned point lies strictly outside radius R.
C22_ReturnedWithinSurface ==
    (pc = "done" /\ IsPair(result)) => FLe(ResultDist2, RSquared)

\* C22 as the code has it: the immediate-hit result (line 253) and the
\* fallback result (line 298) have squared distance <= R*R; the refined
\* result (line 296) exceeds R*R by at most the rounding of the float
\* operations, 4 ulp of |r0|^2 + |delta|^2.
C22_ReturnedWithinRounding ==
    (pc = "done" /\ IsPair(result))
    => /\ ret \in {253, 296, 298}
       /\ ret \in {253, 298} => FLe(ResultDist2, RSquared)
       /\ ret = 296
          => FLe(FSub(ResultDist2, RSquared),
                 FMul(FMul(F(4, 0), Ulp),
                      FAdd(FAdd(FMul(x, x), FMul(y, y)),
                           SegA(x, y, x_new, y_new))))

\* a refined point whose computed squared distance is above R*R
C22_Witness ==
    /\ pc = "done"
    /\ ret = 296
    /\ FGt(ResultDist2, RSquared)

\* C23: in exact arithmetic the refinement always finds a root.  Whenever a
\* crossing is detected (|r0|^2 > R^2 and |r0 + delta|^2 <= R^2), A > 0, the
\* discriminant is >= 0 and the smaller root lies in (0, 1], so the refined
\* return is taken and the fallback return is not.
C23_ExactRefinementFindsRoot ==
    (call.op = "segment" /\ call.C > 0 /\ call.hit)
    => /\ call.A > 0
       /\ call.disc >= 0
       /\ 0 - call.B > 0 /\ call.disc < call.B * call.B
       /\ (0 - call.B - 2 * call.A <= 0)
          \/ ((call.B + 2 * call.A) * (call.B + 2 * call.A) <= call.disc)
       /\ call.first
       /\ call.ret = 296

\* a step that crosses the circle obliquely and ends strictly inside: two
\* distinct roots, only the smaller one in [0, 1]
C23_Witness ==
    /\ call.op = "segment"
    /\ call.C > 0 /\ call.hit
    /\ call.dx # 0 /\ call.dy # 0
    /\ call.disc > 0
    /\ call.first /\ ~ call.second
    /\ call.ret = 296

\* C24: max_steps is not defaulted.  A call with max_steps <= 0 and a start
\* strictly outside R performs no integration step and returns None,
\* whatever the velocity and the gravity are.
C24_NoStepsBudget ==
    (arg.max_steps <= 0 /\ FGt(StartDist2, RSquared))
    => /\ steps = 0
       /\ pc = "done" => result = None /\ ret = 318

\* max_steps = 0 returns None for a start from which one step would hit
C24_Witness ==
    /\ pc = "done"
    /\ arg.max_steps = 0
    /\ FGt(StartDist2, RSquared)
    /\ result = None /\ steps = 0
    /\ IsPair(ImpactPoint([arg EXCEPT !.max_steps = 1]))

\* C25: the divergence test is applied only to step-end positions and only
\* after the impact test of the same step.  A start already beyond
\* (10^6 R)^2 is not rejected at entry, at least one integration step is
\* taken when max_steps >= 1, and if that step ends within R the call
\* returns an impact point; a call returns as escaped only from a step
\* whose end position is beyond the bound and outside R.
C25_DivergenceAfterImpactTest ==
    /\ [](FGt(StartDist2, EscapeBound2) /\ pc # "entry"
          => /\ steps = 0 => (pc = "loop" \/ (arg.max_steps <= 0 /\ ret = 318))
             /\ (pc = "done" /\ arg.max_steps >= 1) => steps >= 1
             /\ (pc = "done" /\ steps = 1 /\ FLe(EndDist2, RSquared))
                => IsPair(result))
    /\ [](ret = 301 => /\ steps >= 1
                       /\ FGt(EndDist2, EscapeBound2)
                       /\ FGt(EndDist2, RSquared))
    /\ [][ret' = 301 => (pc = "loop" /\ steps' = steps + 1)]_vars

\* from beyond the bound the first step ends within R and a point is returned
C25_Witness ==
    /\ pc = "done"
    /\ FGt(StartDist2, EscapeBound2)
    /\ steps = 1
    /\ FLe(EndDist2, RSquared)
    /\ IsPair(result)

\* the step is a get_json or post_json with a path other than "/version"
GatedCallStep ==
    /\ server' = server
    /\ call'.op \in {"get_json", "post_json"}
    /\ call'.path # "/version"

\* C26: the version check is cached once per HttpClient.  Once
\* _version_checked is true no field of the client changes again; a call
\* with a path other than "/version" sends the /version probe only while
\* _version_checked is false, and sets it, so that the probe is sent at most
\* once; a client whose probe ended 'not supported' refuses every later
\* gated call without a request, whatever the server has become since.
C26_VersionCheckedOnce ==
    /\ [][http.version_checked => http' = http]_vars
    /\ [][(GatedCallStep /\ \E i \in 1..Len(sent') : sent'[i].path = "/version")
          => /\ ~ http.version_checked /\ http'.version_checked
             /\ sent'[1].path = "/version"
             /\ \A i \in 2..Len(sent') : sent'[i].path # "/version"]_vars
    /\ [][(GatedCallStep /\ ~ http.version_checked) => http'.version_checked]_vars
    /\ [][(GatedCallStep /\ http.version_checked /\ ~ http.supported)
          => call'.result = UnsupportedMsg /\ sent' = << >>]_vars

\* the probe failed with an exception, the server has since come back with
\* version 1.3, and a gated call is still refused without a request
C26_Witness ==
    /\ http = [version_checked |-> TRUE, supported |-> FALSE,
               version_text |-> << >>]
    /\ server.version = [kind |-> "ok", text |-> <<Num(1), Num(3)>>]
    /\ call.op = "get_json" /\ call.path = "/rocket_sim"
    /\ call.result = UnsupportedMsg
    /\ sent = << >>

\* the part is a non-negative integer in decimal digits
IsNumber(q) == q.k \in {"int", "huge"}

\* the number of the part is above n, resp. at least n (n below 10^4300)
NumberAbove(q, n) == q.k = "huge" \/ q.n > n

NumberAtLeast(q, n) == q.k = "huge" \/ q.n >= n

NumberIs(q, n) == q.k = "int" /\ q.n = n

C27_HugeComponent ==
    /\ call.op = "is_version_supported"
    /\ call.ver = <<Num(2), Num(0), Huge>>
    /\ call.result = FALSE

\* the candidates of the forwarded name, as lines 28-50 compute them
Tried == CandidateNames(call.name)

\* the i-th request to /control is a POST for the i-th candidate
RequestsFollowCandidates ==
    /\ Len(ControlRequests) <= Len(Tried)
    /\ \A i \in 1..Len(ControlRequests) :
           ControlRequests[i]
               = [verb |-> "POST", path |-> "/control",
                  payload |-> [method |-> Tried[i], args |-> call.args]]

\* the caller stopped at the first candidate that the server knows and
\* returned its answer, or tried them all and returned the last answer
StoppedAtFirstKnown ==
    LET k == Len(ControlRequests)
    IN  /\ k >= 1
        /\ \A i \in 1..(k - 1) : Tried[i] \notin call.known
        /\ IF Tried[k] \in call.known
           THEN call.result = [str |-> "Success"]
           ELSE /\ k = Len(Tried)
                /\ call.result = [str |-> "Error: Unknown method",
                                  about |-> Tried[k]]

CandidatesInOrder ==
    /\ Tried[1] = call.name
    /\ \A i, j \in 1..Len(Tried) : i # j => Tried[i] # Tried[j]

\* C28 as stated: the caller tries the candidates in a fixed order that
\* starts with the name as given and has no duplicates, sending one /control
\* request per tried candidate; it stops at the first response that is not
\* 'Unknown method' and returns it, and returns the last response when every
\* candidate is unknown.
C28_DispatchRetry ==
    call.op = "forward"
    => /\ CandidatesInOrder
       /\ RequestsFollowCandidates
       /\ StoppedAtFirstKnown

\* C28 as the code has it: the same on a client whose version check passed;
\* on a client that is 'not supported' the first candidate is answered by
\* the client itself, no request goes to /control, and the refusal text is
\* returned.
C28_DispatchRetrySupported ==
    call.op = "forward"
    => /\ CandidatesInOrder
       /\ RequestsFollowCandidates
       /\ http.version_checked
       /\ http.supported => StoppedAtFirstKnown
       /\ ~ http.supported
          => /\ ControlRequests = << >>
             /\ call.result
                    = [str |-> "PySFS only supports SFSControl v1.2 and above"]

\* use_Part on a server that knows UsePart: the third candidate succeeds
C28_Witness ==
    /\ call.op = "forward"
    /\ call.name = <<"u", "s", "e", "_", "P", "a", "r", "t">>
    /\ call.known = {<<"U", "s", "e", "P", "a", "r", "t">>}
    /\ http.supported
    /\ Len(ControlRequests) = 3
    /\ call.result = [str |-> "Success"]

\* every candidate is unknown: the answer to the last one is returned
C28_AllUnknown ==
    /\ call.op = "forward"
    /\ call.known = {}
    /\ http.supported
    /\ Len(ControlRequests) = Len(Tried)
    /\ call.result = [str |-> "Error: Unknown method",
                      about |-> Tried[Len(Tried)]]

VersionRequest == [verb |-> "GET", path |-> "/version", payload |-> [none |-> TRUE]]

\* C29: constructing SFSClient sends one /version request and succeeds even
\* when that request raises; the warm-up does not mark the version as
\* checked, and neither does any call with path "/version", so the first
\* later call with another path still performs the version check (a second
\* /version request) before it is sent or refused.
C29_WarmUpNotChecked ==
    /\ [][pc = "new"
          => /\ pc' = "idle"
             /\ call' = [op |-> "construct", result |-> [str |-> "SFSClient"]]
             /\ sent' = <<VersionRequest>>
             /\ ~ http'.version_checked]_vars
    /\ [][(pc = "idle" /\ ~ http.version_checked /\ call'.path = "/version")
          => ~ http'.version_checked]_vars
    /\ [][(pc = "idle" /\ ~ http.version_checked /\ call'.path # "/version")
          => /\ http'.version_checked
             /\ sent'[1] = VersionRequest
             /\ IF http'.supported
                THEN /\ Len(sent') = 2
                     /\ sent'[2].path = call'.path
                ELSE /\ Len(sent') = 1
                     /\ call'.result = UnsupportedMsg]_vars

\* the warm-up request raised, the constructor succeeded, and the first
\* gated call sent the second /version request and was refused
C29_Witness ==
    /\ pc = "idle"
    /\ server.version.kind = "fail"
    /\ call.op = "get_json" /\ call.path = "/rocket_sim"
    /\ sent = <<VersionRequest>>
    /\ http.version_checked /\ ~ http.supported
    /\ call.result = UnsupportedMsg

\* on a server of version 1.3 the first gated call after the constructor
\* sends /version again and then its own request
C29_SecondVersionRequest ==
    /\ pc = "idle"
    /\ server.version = [kind |-> "ok", text |-> <<Num(1), Num(3)>>]
    /\ call.op = "post_json" /\ call.path = "/control"
    /\ Len(sent) = 2 /\ sent[1] = VersionRequest /\ sent[2].path = "/control"

====
